---------------------------- MODULE Spec2Model ----------------------------
(***************************************************************************)
(* Narrative aggregation cache and fallback orchestrator                   *)
(* (backend/routes/narrative.py): the /today and /markdown handlers, the   *)
(* TTL cache, the per-key in-flight locks, the source fan-out and the      *)
(* AI/template generation gate.                                            *)
(*                                                                         *)
(* Python strings that take part in key building or normalisation are      *)
(* sequences of one-character strings, so that strip(), lower() and the    *)
(* f-string concatenation of the cache key are computed, not assumed.      *)
(* One action is one run of a coroutine between two suspension points of   *)
(* the event loop.                                                         *)
(***************************************************************************)
EXTENDS Integers, Sequences, FiniteSets, TLC

VARIABLES
    now,                \* time.time(), in whole time units
    ai_env,             \* what _ai_allowed() returns when called now
    ENV_ENABLE_TRENDS,  \* module constant read from the environment at import
    trends_agent,       \* get_trends_summary is not None (import succeeded)
    CACHE,              \* _CACHE: key -> [expires_at, payload]
    INFLIGHT_LOCKS,     \* _INFLIGHT_LOCKS: key -> asyncio.Lock
    heap,               \* the nested dicts (summary, raw, raw.meta) shared by reference
    frames,             \* one activation record per handler call
    probe               \* two calls' parameters with the locals computed from them

vars == <<now, ai_env, ENV_ENABLE_TRENDS, trends_agent, CACHE, INFLIGHT_LOCKS,
          heap, frames, probe>>

-----------------------------------------------------------------------------
(* Bounds of the model *)

NumReqs == 2
MaxTime == 130
TickStep == 60

(* Program constants *)

MAX_CACHE_TTL == 120

-----------------------------------------------------------------------------
(* Strings as character sequences *)

s_ai == <<"a", "i">>
s_AI == <<"A", "I">>
s_template == <<"t", "e", "m", "p", "l", "a", "t", "e">>
s_markdown == <<"m", "a", "r", "k", "d", "o", "w", "n">>
s_Markdown == <<"M", "a", "r", "k", "d", "o", "w", "n">>
s_sp_markdown == <<" ", "m", "a", "r", "k", "d", "o", "w", "n">>
s_json == <<"j", "s", "o", "n">>
s_none == <<"n", "o", "n", "e">>
s_today == <<"t", "o", "d", "a", "y">>
s_empty == <<>>
s_x == <<"x">>
\* a mode and a format that spell out key segments themselves
s_x_ttl60 ==
    <<"x", "|", "t", "t", "l", "=", "6", "0", "|", "s", "c", "=", "t", "o", "d", "a", "y", "|", "f", "m", "t", "=", "y">>
s_z == <<"z">>
s_y_ttl0 ==
    <<"y", "|", "t", "t", "l", "=", "0", "|", "s", "c", "=", "t", "o", "d", "a", "y", "|", "f", "m", "t", "=", "z">>
s_y_ttl0_markdown ==
    <<"y", "|", "t", "t", "l", "=", "0", "|", "s", "c", "=", "m", "a", "r", "k", "d", "o", "w", "n", "|", "f", "m", "t", "=", "n", "o", "n", "e">>

UpperChars == <<"A", "B", "C", "D", "E", "F", "G", "H", "I", "J", "K", "L", "M",
                "N", "O", "P", "Q", "R", "S", "T", "U", "V", "W", "X", "Y", "Z">>
LowerChars == <<"a", "b", "c", "d", "e", "f", "g", "h", "i", "j", "k", "l", "m",
                "n", "o", "p", "q", "r", "s", "t", "u", "v", "w", "x", "y", "z">>
DigitChars == <<"0", "1", "2", "3", "4", "5", "6", "7", "8", "9">>
Whitespace == {" ", "\t", "\n"}

UpperSet == {UpperChars[i] : i \in 1..Len(UpperChars)}
ToLower == [c \in UpperSet |-> LowerChars[CHOOSE i \in 1..Len(UpperChars) : UpperChars[i] = c]]

\* str.lower() on one character
lower_char(c) == IF c \in UpperSet THEN ToLower[c] ELSE c

\* str.lower()
lower(s) == [i \in 1..Len(s) |-> lower_char(s[i])]

RECURSIVE lstrip(_)
lstrip(s) == IF s # <<>> /\ Head(s) \in Whitespace THEN lstrip(Tail(s)) ELSE s

RECURSIVE rstrip(_)
rstrip(s) ==
    IF s # <<>> /\ s[Len(s)] \in Whitespace THEN rstrip(SubSeq(s, 1, Len(s) - 1)) ELSE s

\* str.strip()
strip(s) == rstrip(lstrip(s))

\* str(n) for an integer n >= 0 (the f-string rendering of ttl and of int(bool(x)))
RECURSIVE int_str(_)
int_str(n) ==
    IF n < 10 THEN <<DigitChars[n + 1]>>
    ELSE int_str(n \div 10) \o <<DigitChars[(n % 10) + 1]>>

int_bool(b) == IF b THEN 1 ELSE 0

Max(a, b) == IF a >= b THEN a ELSE b
Min(a, b) == IF a <= b THEN a ELSE b
Range(s) == {s[i] : i \in 1..Len(s)}


-----------------------------------------------------------------------------
(* Optional values: Python's None against a present value *)

Nothing == [some |-> FALSE]
Some(x) == [some |-> TRUE, v |-> x]

-----------------------------------------------------------------------------
(* Utility helpers *)

cap_ttl_without_ceiling(ttl) == Max(0, ttl)

\* _cap_ttl
cap_ttl(ttl) == Max(0, Min(ttl, MAX_CACHE_TTL))

\* _parse_trends_override: Optional[int] -> Optional[bool]
parse_trends_override(trends) ==
    IF ~trends.some THEN Nothing ELSE Some(trends.v # 0)

\* effective_trends = _ENV_ENABLE_TRENDS if override is None else override
effective_trends_of(override, env_default) ==
    IF ~override.some THEN env_default ELSE override.v

\* _fmt_key
fmt_key(format_value) ==
    IF ~format_value.some THEN s_none
    ELSE LET v == lower(strip(format_value.v))
         IN  IF v # <<>> THEN v ELSE s_none

build_cache_key_without_trends(mode, ttl, scope, format_value, trends_override, effective_trends, ai_allowed, compact) ==
    <<"m", "=">> \o mode
        \o <<"|", "t", "t", "l", "=">> \o int_str(ttl)
        \o <<"|", "s", "c", "=">> \o scope
        \o <<"|", "f", "m", "t", "=">> \o fmt_key(format_value)
        \o <<"|">> \o <<"a", "i", "=">> \o int_str(int_bool(ai_allowed))
        \o <<"|">> \o <<"c", "m", "p", "=">> \o int_str(int_bool(compact))

\* _build_cache_key: f"m={mode}|ttl={ttl}|sc={scope}|fmt={fmt}|{tr}|{ak}|{cmp}"
build_cache_key(mode, ttl, scope, format_value, trends_override, effective_trends, ai_allowed, compact) ==
    LET fmt == fmt_key(format_value)
        tr  == IF ~trends_override.some
               THEN <<"t", "r", ":", "e", "n", "v", "=">>
                        \o int_str(int_bool(effective_trends))
               ELSE <<"t", "r", ":", "o", "v", "r", "=">>
                        \o int_str(int_bool(trends_override.v))
                        \o <<"|", "e", "f", "f", "=">>
                        \o int_str(int_bool(effective_trends))
        ak  == <<"a", "i", "=">> \o int_str(int_bool(ai_allowed))
        cmp == <<"c", "m", "p", "=">> \o int_str(int_bool(compact))
    IN  <<"m", "=">> \o mode
            \o <<"|", "t", "t", "l", "=">> \o int_str(ttl)
            \o <<"|", "s", "c", "=">> \o scope
            \o <<"|", "f", "m", "t", "=">> \o fmt
            \o <<"|">> \o tr \o <<"|">> \o ak \o <<"|">> \o cmp

\* requested_mode = (mode or "template").strip().lower()
requested_mode_of(mode) == lower(strip(IF mode # <<>> THEN mode ELSE s_template))

\* fmt_str = str(format).lower() if format is not None else ""; fmt_str == "markdown"
wants_markdown(format_value) ==
    format_value.some /\ lower(format_value.v) = s_markdown

-----------------------------------------------------------------------------
(* Soft errors.  A map is a function from key names to messages; a message *)
(* is the sequence of the pieces the f-string joins.                       *)

ALLOWED_SOFT_ERROR_KEYS ==
    {"ai", "trends", "odds", "games_today", "player_props", "markdown", "template"}

NoErrors == [k \in {} |-> <<>>]

put(d, k, v) == [x \in DOMAIN d \cup {k} |-> IF x = k THEN v ELSE d[x]]

setdefault(d, k, v) == IF k \in DOMAIN d THEN d ELSE put(d, k, v)

get(d, k, dflt) == IF k \in DOMAIN d THEN d[k] ELSE dflt

\* a value that is not a dict, of Python type t
nondict(t) == [py_type |-> t]
is_dict(v) == "py_type" \notin DOMAIN v

\* None among the values of a soft_errors dict, kept apart from every message
NoneValue == <<"<NoneType>">>

sanitize_soft_errors_none_when_empty(soft_errors) ==
    IF ~is_dict(soft_errors) \/ DOMAIN soft_errors \cap ALLOWED_SOFT_ERROR_KEYS = {}
    THEN nondict("NoneType")
    ELSE [k \in DOMAIN soft_errors \cap ALLOWED_SOFT_ERROR_KEYS |-> soft_errors[k]]

sanitize_soft_errors_keeping_all(soft_errors) ==
    IF ~is_dict(soft_errors) THEN NoErrors ELSE soft_errors

\* a value that is an int, with its decimal digits
IntValue == <<"<int>", "404">>

\* isinstance(value, str)
is_str(value) == value = <<>> \/ Head(value) \notin {"<NoneType>", "<int>"}

\* str(value): a str is returned as it is, an int as its digits
py_str(value) == IF is_str(value) THEN value ELSE Tail(value)

sanitize_soft_errors_raw_values(soft_errors) ==
    IF ~is_dict(soft_errors) THEN NoErrors
    ELSE [k \in DOMAIN soft_errors \cap ALLOWED_SOFT_ERROR_KEYS |-> soft_errors[k]]

\* _sanitize_soft_errors
sanitize_soft_errors(soft_errors) ==
    IF ~is_dict(soft_errors) THEN NoErrors
    ELSE [k \in DOMAIN soft_errors \cap ALLOWED_SOFT_ERROR_KEYS |->
             IF soft_errors[k] = NoneValue THEN <<>> ELSE py_str(soft_errors[k])]

-----------------------------------------------------------------------------
(* Summaries.  risk_score is in hundredths.                                *)

\* _fallback_summary
fallback_summary(reason) ==
    [macro_summary |-> <<"NBA narrative is available in fallback mode.",
                         "Detailed AI narrative is currently unavailable for this request.">>,
     micro_summary |-> [key_edges |-> <<>>, risk_score |-> 0, risk_rationale |-> reason],
     analyst_takeaway |-> "Review the slate and odds context",
     confidence_summary |-> <<"Low">>,
     metadata |-> [model |-> "ROUTE_FALLBACK"]]

rep(n, x) == [i \in 1..n |-> x]

\* _build_grounded_template_summary over the item counts of the fetched inputs
build_grounded_template_summary(data) ==
    LET key_edges == rep(Min(data.odds, 3), [value_label |-> "Market Context"])
                        \o rep(Min(data.player_trends, 2), [value_label |-> "Trend Signal"])
                        \o rep(Min(data.player_props, 2), [value_label |-> "Props Availability"])
        missing == (IF data.games_today = 0 THEN <<"games_today">> ELSE <<>>)
                        \o (IF data.odds = 0 THEN <<"odds">> ELSE <<>>)
                        \o (IF data.player_trends = 0 THEN <<"player_trends">> ELSE <<>>)
                        \o (IF data.player_props = 0 THEN <<"player_props">> ELSE <<>>)
        risk_score == Min(95, 35 + 12 * Len(missing))
        confidence == IF risk_score <= 45 THEN "High"
                      ELSE IF risk_score <= 65 THEN "Medium" ELSE "Low"
    IN  [macro_summary |->
            (IF data.games_today > 0
             THEN <<"Slate overview: games returned", "Sample matchups">>
             ELSE <<"Slate overview: no games">>) \o <<"Data coverage">>,
         micro_summary |->
            [key_edges |-> SubSeq(key_edges, 1, Min(Len(key_edges), 6)),
             risk_score |-> risk_score,
             risk_rationale |->
                IF missing # <<>> THEN <<"Higher uncertainty due to limited inputs: ">> \o missing
                ELSE <<"Core inputs were available">>],
         analyst_takeaway |-> "Use this summary as a grounded slate snapshot.",
         confidence_summary |-> <<confidence>>,
         metadata |-> [model |-> "TEMPLATE_GROUNDED_V1", ai_used |-> FALSE,
                       ai_error |-> "mode=template (AI not requested)."]]

validate_or_fallback_metadata_only(candidate, soft_errors, ai_used, reason_prefix) ==
    IF ~is_dict(candidate)
    THEN [summary |-> fallback_summary(<<reason_prefix>>), ai_used |-> FALSE,
          soft_errors |-> put(soft_errors, "ai", <<reason_prefix>>)]
    ELSE [summary |-> IF is_dict(get(candidate, "metadata", nondict("NoneType")))
                      THEN candidate ELSE put(candidate, "metadata", <<>>),
          ai_used |-> ai_used, soft_errors |-> soft_errors]

validate_or_fallback_keeping_ai_used(candidate, soft_errors, ai_used, reason_prefix) ==
    [summary |-> fallback_summary(<<reason_prefix, ": AI output invalid type">>),
     ai_used |-> ai_used,
     soft_errors |-> put(soft_errors, "ai", <<reason_prefix, ": AI output invalid type">>)]

validate_or_fallback_always_fallback(candidate, soft_errors, ai_used, reason_prefix) ==
    [summary |-> fallback_summary(<<reason_prefix>>), ai_used |-> FALSE,
     soft_errors |-> soft_errors]

\* _validate_or_fallback: [summary, ai_used, soft_errors]
validate_or_fallback(candidate, soft_errors, ai_used, reason_prefix) ==
    IF ~is_dict(candidate)
    THEN LET msg == <<reason_prefix, ": AI output invalid type: ", candidate.py_type>>
         IN  [summary |-> fallback_summary(msg), ai_used |-> FALSE,
              soft_errors |-> put(soft_errors, "ai", msg)]
    ELSE LET c1 == setdefault(candidate, "macro_summary", <<>>)
             c2 == setdefault(c1, "micro_summary", <<>>)
             c3 == IF ~is_dict(c2["micro_summary"]) THEN put(c2, "micro_summary", <<>>) ELSE c2
             c4 == setdefault(c3, "analyst_takeaway", "")
             c5 == setdefault(c4, "confidence_summary", <<"Medium">>)
             c6 == setdefault(c5, "metadata", <<>>)
             c7 == IF ~is_dict(c6["metadata"]) THEN put(c6, "metadata", <<>>) ELSE c6
             m1 == setdefault(c7["micro_summary"], "key_edges", <<>>)
             m2 == setdefault(m1, "risk_score", 50)
             m3 == setdefault(m2, "risk_rationale", <<"Narrative generated with guardrails.">>)
         IN  [summary |-> put(c7, "micro_summary", m3), ai_used |-> ai_used,
              soft_errors |-> soft_errors]

\* _render_markdown: the lines it emits, or the fault it raises (json.dumps of an
\* edge it cannot serialise); the first line is always the title line.
render_markdown(summary, compact) ==
    LET micro == IF is_dict(get(summary, "micro_summary", <<>>))
                 THEN get(summary, "micro_summary", <<>>) ELSE <<>>
        macro == get(summary, "macro_summary", <<>>)
        edges == get(micro, "key_edges", <<>>)
        analyst == get(summary, "analyst_takeaway", "")
    IN  IF ~compact /\ \E i \in 1..Len(edges) : "unserialisable" \in DOMAIN edges[i]
        THEN [threw |-> TRUE, text |-> <<>>]
        ELSE [threw |-> FALSE,
              text |-> <<"**NBA Narrative**">>
                  \o (IF macro # <<>> THEN <<"### Macro Summary">> ELSE <<>>)
                  \o (IF edges # <<>> /\ ~compact THEN <<"### Key Edges">> ELSE <<>>)
                  \o (IF "risk_score" \in DOMAIN micro /\ ~compact
                      THEN <<"### Risk & Confidence">> ELSE <<>>)
                  \o (IF analyst # "" THEN <<"### Analyst Takeaway">> ELSE <<>>)
                  \o (IF macro = <<>> /\ "summary" \in DOMAIN summary
                      THEN <<"### Summary">> ELSE <<>>)]

build_source_status_by_count(games_count, games_err, odds_count, odds_err, player_trends_count, team_trends_count, trends_err, trends_enabled, player_props_count, player_props_err) ==
    LET st(count) == IF count > 0 THEN "ok" ELSE "no_data"
    IN  [games_today |-> [status |-> st(games_count), count |-> games_count],
         odds |-> [status |-> st(odds_count), count |-> odds_count],
         trends |-> [status |-> st(player_trends_count + team_trends_count),
                     count |-> player_trends_count + team_trends_count],
         player_props |-> [status |-> st(player_props_count), count |-> player_props_count]]

\* _build_source_status
build_source_status(games_count, games_err, odds_count, odds_err, player_trends_count, team_trends_count, trends_err, trends_enabled, player_props_count, player_props_err) ==
    LET trends_count == player_trends_count + team_trends_count
        st(err, count) == IF err.some THEN "error" ELSE IF count > 0 THEN "ok" ELSE "no_data"
    IN  [games_today |-> [status |-> st(games_err, games_count), count |-> games_count],
         odds |-> [status |-> st(odds_err, odds_count), count |-> odds_count],
         trends |-> [status |-> IF trends_err.some
                                THEN (IF ~trends_enabled THEN "disabled" ELSE "error")
                                ELSE IF trends_count = 0 THEN "no_data" ELSE "ok",
                     count |-> trends_count],
         player_props |-> [status |-> st(player_props_err, player_props_count),
                           count |-> player_props_count]]

\* _sha1_digest: a digest of the pruned inputs (equal exactly when they are equal)
sha1_digest(data) ==
    <<"sha1", data.games_today, data.player_trends, data.team_trends,
      data.player_props, data.odds>>

-----------------------------------------------------------------------------
(* Program state as one record, so that the synchronous parts of a handler *)
(* compose: S is the state before a step, the result the state after it.   *)

Sources == {"games_today", "odds", "player_props", "trends"}

PROMPT_VERSION == "v3.10-structured-logging"
CONTRACT_VERSION == "2.7"

Frames == 1..(2 * NumReqs)

\* Frame r + NumReqs is the get_daily_narrative call nested in /markdown request r.
Parent(f) == IF f > NumReqs THEN f - NumReqs ELSE 0
Nested(r) == r + NumReqs

IdleFrame ==
    [pc |-> "idle", ep |-> "today", mode |-> <<>>, cache_ttl |-> 0, format |-> Nothing,
     trends |-> Nothing, compact |-> FALSE, ai_allowed |-> FALSE, t0 |-> 0,
     src |-> [s \in Sources |-> "none"], waited |-> FALSE, ai_invoked |-> FALSE,
     gen_threw |-> FALSE, gen_value |-> Nothing, resp |-> Nothing]

State ==
    [now |-> now, ai_env |-> ai_env, env_trends |-> ENV_ENABLE_TRENDS,
     trends_agent |-> trends_agent, CACHE |-> CACHE, LOCKS |-> INFLIGHT_LOCKS,
     heap |-> heap, frames |-> frames]

\* The locals a handler computes on entry, from its parameters (a frame or a probe),
\* _ENV_ENABLE_TRENDS and the value _ai_allowed() returned
ttl_of(fr) == cap_ttl(fr.cache_ttl)
override_of(fr) == parse_trends_override(fr.trends)

key_for(fr, env_trends) ==
    LET effective == effective_trends_of(override_of(fr), env_trends)
    IN  IF fr.ep = "today"
        THEN build_cache_key(fr.mode, ttl_of(fr), s_today, fr.format, override_of(fr),
                             effective, fr.ai_allowed, FALSE)
        ELSE build_cache_key(fr.mode, ttl_of(fr), s_markdown, Nothing, override_of(fr),
                             effective, fr.ai_allowed, fr.compact)

effective_of(S, fr) == effective_trends_of(override_of(fr), S.env_trends)
cache_key_of(S, fr) == key_for(fr, S.env_trends)

\* which generator the gate runs for these parameters
gate_path(mode, ai_allowed) ==
    IF requested_mode_of(mode) = s_ai
    THEN (IF ai_allowed THEN "ai" ELSE "blocked")
    ELSE "template"

\* What of a freshly generated response body the parameters decide: the mode field,
\* whether markdown is embedded and in which form, the generator, the trends
\* setting, the reported TTL.  /markdown calls /today with format="markdown".
body_shape(fr, env_trends) ==
    [mode |-> requested_mode_of(fr.mode),
     has_markdown |-> IF fr.ep = "today" THEN wants_markdown(fr.format) ELSE TRUE,
     compact |-> fr.ep = "markdown" /\ fr.compact,
     endpoint |-> fr.ep,
     generator |-> gate_path(fr.mode, fr.ai_allowed),
     ai_allowed |-> fr.ai_allowed,
     trends_enabled_in_narrative |-> effective_trends_of(override_of(fr), env_trends),
     trends_override |-> override_of(fr),
     cache_ttl_s |-> ttl_of(fr)]

locals_of(fr, env_trends) ==
    [ttl |-> ttl_of(fr), override |-> override_of(fr),
     effective_trends |-> effective_trends_of(override_of(fr), env_trends),
     cache_key |-> key_for(fr, env_trends),
     body |-> body_shape(fr, env_trends)]

\* cached and cached["expires_at"] > time.time()
fresh_at_or_after_expiry(S, key) == key \in DOMAIN S.CACHE

fresh(S, key) == key \in DOMAIN S.CACHE /\ S.CACHE[key].expires_at > S.now

snapshot_failing_on_soft_errors(S, payload) ==
    [ok |-> DOMAIN S.heap[payload.ref].meta.soft_errors = {}, mode |-> payload.mode,
     markdown |-> payload.markdown, ref |-> payload.ref,
     summary |-> S.heap[payload.ref].summary, raw |-> S.heap[payload.ref].raw,
     meta |-> S.heap[payload.ref].meta]

\* what the caller receives: the top-level dict with the nested dicts as they are now
snapshot(S, payload) ==
    [ok |-> payload.ok, mode |-> payload.mode, markdown |-> payload.markdown,
     ref |-> payload.ref, summary |-> S.heap[payload.ref].summary,
     raw |-> S.heap[payload.ref].raw, meta |-> S.heap[payload.ref].meta]

release_never(S, key) == S

\* asyncio.Lock: release() leaves the lock free; the first waiter takes it when it runs
release(S, key) == [S EXCEPT !.LOCKS[key].locked = FALSE]

acquire_nothing(S, key) == S

acquire(S, key) == [S EXCEPT !.LOCKS[key].locked = TRUE]

lock_is_free_ignoring_holder(S, key) == S.LOCKS[key].waiters = <<>>

\* Lock.acquire() returns at once: not locked and nobody queued
lock_is_free(S, key) == ~S.LOCKS[key].locked /\ S.LOCKS[key].waiters = <<>>

ensure_lock_replacing(S, key) == [S EXCEPT !.LOCKS = put(@, key, [locked |-> FALSE, waiters |-> <<>>])]

\* if cache_key not in _INFLIGHT_LOCKS: _INFLIGHT_LOCKS[cache_key] = asyncio.Lock()
ensure_lock(S, key) ==
    IF key \in DOMAIN S.LOCKS THEN S
    ELSE [S EXCEPT !.LOCKS = put(@, key, [locked |-> FALSE, waiters |-> <<>>])]

\* if ttl > 0: _CACHE[cache_key] = {"expires_at": time.time() + ttl, "payload": resp}
cache_store(S, key, ttl, payload) ==
    IF ttl > 0
    THEN [S EXCEPT !.CACHE = put(@, key, [expires_at |-> S.now + ttl, payload |-> payload])]
    ELSE S

serve_hit_keeping_meta(S, f, key) == S

\* payload = dict(cached["payload"]) and the writes to payload["raw"]["meta"], which is
\* the dict the cache entry holds.  round(expires_in, 2) in whole time units: a lookup
\* in the time unit of the store reads the full TTL.
serve_hit(S, f, key) ==
    LET cached == S.CACHE[key]
        ref == cached.payload.ref
    IN  [S EXCEPT !.heap[ref].meta =
            [@ EXCEPT !.latency_ms = 0, !.cache_used = TRUE, !.cache_key = key,
                      !.cache_ttl_s = ttl_of(S.frames[f]),
                      !.cache_expires_in_s = cached.expires_at - S.now,
                      !.request_id = f]]

safe_call_dropping_error(label, outcome) ==
    [data |-> IF outcome = "err" THEN Nothing ELSE Some(IF outcome = "data" THEN 1 ELSE 0),
     error |-> Nothing]

\* _safe_call / _safe_await: (result, None) or (None, "<label>: <fault>")
safe_call(label, outcome) ==
    IF outcome = "err"
    THEN [data |-> Nothing, error |-> Some(<<label, ": ", "Exception">>)]
    ELSE [data |-> Some(IF outcome = "data" THEN 1 ELSE 0), error |-> Nothing]

count_of_nothing(result) == 0

count_of(result) == IF result.data.some THEN result.data.v ELSE 0

\* /markdown after its nested call returned `data`: guardrails, render, cache, return
markdown_finish(S, r, data) ==
    LET fr == S.frames[r]
        key == cache_key_of(S, fr)
        ttl == ttl_of(fr)
        obj == S.heap[data.ref]
        rm == render_markdown(obj.summary, fr.compact)
        fail == <<"Markdown generation failed", ": ", "Exception">>
        se == IF rm.threw THEN sanitize_soft_errors(put(obj.meta.soft_errors, "markdown", fail))
              ELSE obj.meta.soft_errors
        markdown == IF rm.threw THEN render_markdown(fallback_summary(fail), fr.compact).text
                    ELSE rm.text
        out == [data EXCEPT !.markdown = Some(markdown), !.ok = TRUE]
        S1 == [S EXCEPT !.heap[data.ref] =
                  [@ EXCEPT !.summary.metadata = put(@, "prompt_version", PROMPT_VERSION),
                            !.meta = [@ EXCEPT !.request_id = r, !.cache_key = key,
                                               !.cache_ttl_s = ttl,
                                               !.cache_expires_in_s = ttl,
                                               !.soft_errors = sanitize_soft_errors(se)]]]
        S2 == release(cache_store(S1, key, ttl, out), key)
    IN  [S2 EXCEPT !.frames[r].pc = "done", !.frames[r].resp = Some(snapshot(S2, out))]

\* `return payload` / `return resp` of get_daily_narrative; a nested call returns
\* into /markdown, which runs on without suspending
today_return(S, f, payload) ==
    LET S1 == [S EXCEPT !.frames[f].pc = "done",
                        !.frames[f].resp = Some(snapshot(S, payload))]
    IN  IF Parent(f) = 0 THEN S1 ELSE markdown_finish(S1, Parent(f), payload)

\* /markdown served from its own cache entry
markdown_return(S, r, payload) ==
    [S EXCEPT !.frames[r].pc = "done", !.frames[r].resp = Some(snapshot(S, payload))]

-----------------------------------------------------------------------------
(* get_daily_narrative *)

generation_gate_dropping_fault(mode, ai_allowed, data, soft_errors, gen) ==
    [candidate |-> fallback_summary(<<"AI generation threw", ": ", "Exception">>),
     ai_used |-> FALSE, soft_errors |-> soft_errors,
     invoked |-> requested_mode_of(mode) = s_ai /\ ai_allowed, threw |-> gen.threw]

generation_gate_without_block(mode, ai_allowed, data, soft_errors, gen) ==
    IF gen.threw
    THEN [candidate |-> fallback_summary(<<"AI generation threw", ": ", "Exception">>),
          ai_used |-> FALSE,
          soft_errors |-> put(soft_errors, "ai", <<"AI generation threw", ": ", "Exception">>),
          invoked |-> TRUE, threw |-> TRUE]
    ELSE [candidate |-> gen.value, ai_used |-> TRUE, soft_errors |-> soft_errors,
          invoked |-> TRUE, threw |-> FALSE]

\* Step 2.4: AI gating, generation under try/except.  gen is what the generator
\* called does: [threw |-> TRUE] or [threw |-> FALSE, value |-> its return value].
\* Result: [candidate, ai_used, soft_errors], and whether generate_narrative_summary
\* was called and whether the generator raised.
generation_gate(mode, ai_allowed, data, soft_errors, gen) ==
    LET ai_requested == requested_mode_of(mode) = s_ai
    IN  IF ai_requested /\ ~ai_allowed
        THEN LET reason == <<"AI mode requested but not allowed (OPENAI_API_KEY missing/disabled).">>
             IN  [candidate |-> fallback_summary(reason), ai_used |-> FALSE,
                  soft_errors |-> put(soft_errors, "ai", reason), invoked |-> FALSE,
                  threw |-> FALSE]
        ELSE IF gen.threw
        THEN LET k == IF ai_requested THEN "ai" ELSE "template"
                 reason == IF ai_requested
                           THEN <<"AI generation threw", ": ", "Exception">>
                           ELSE <<"Template generation threw", ": ", "Exception">>
             IN  [candidate |-> fallback_summary(reason), ai_used |-> FALSE,
                  soft_errors |-> put(soft_errors, k, reason), invoked |-> ai_requested,
                  threw |-> TRUE]
        ELSE IF ai_requested
        THEN [candidate |-> gen.value, ai_used |-> TRUE, soft_errors |-> soft_errors,
              invoked |-> TRUE, threw |-> FALSE]
        ELSE [candidate |-> build_grounded_template_summary(data), ai_used |-> FALSE,
              soft_errors |-> soft_errors, invoked |-> FALSE, threw |-> FALSE]

harden_metadata_keeping_candidate(metadata, generated_at, ai_requested, narrative_data, ai_used, ai_allowed) ==
    LET md0 == IF is_dict(metadata) THEN metadata ELSE <<>>
        md1 == setdefault(md0, "generated_at", generated_at)
        md2 == setdefault(md1, "model", IF ~ai_requested THEN "template" ELSE "gpt-4o")
        md3 == setdefault(md2, "prompt_version", PROMPT_VERSION)
        md4 == setdefault(md3, "inputs_digest", sha1_digest(narrative_data))
        md5 == setdefault(md4, "games_today_count", narrative_data.games_today)
        md6 == setdefault(md5, "ai_used", ai_used)
    IN  setdefault(md6, "ai_allowed", ai_allowed)

\* Metadata hardening: metadata.update({...}) over the hardened summary's metadata
harden_metadata(metadata, generated_at, ai_requested, narrative_data, ai_used, ai_allowed) ==
    LET md0 == IF is_dict(metadata) THEN metadata ELSE <<>>
        md1 == put(md0, "generated_at", generated_at)
        md2 == put(md1, "model",
                   get(md0, "model", IF ~ai_requested THEN "template" ELSE "gpt-4o"))
        md3 == put(md2, "prompt_version", PROMPT_VERSION)
        md4 == put(md3, "inputs_digest", sha1_digest(narrative_data))
        md5 == put(md4, "games_today_count", narrative_data.games_today)
        md6 == put(md5, "ai_used", ai_used)
    IN  put(md6, "ai_allowed", ai_allowed)

\* The handler from the return of asyncio.gather to `return resp`
today_resume(S, f, gen) ==
    LET fr == S.frames[f]
        key == cache_key_of(S, fr)
        ttl == ttl_of(fr)
        override == override_of(fr)
        effective_trends == effective_of(S, fr)
        games == safe_call("games_today", fr.src["games_today"])
        odds == safe_call("odds", fr.src["odds"])
        props == safe_call("player_props", fr.src["player_props"])
        trends == IF fr.src["trends"] # "none" THEN safe_call("trends", fr.src["trends"])
                  ELSE [data |-> Nothing,
                        error |-> IF effective_trends
                                  THEN Some(<<"Trends agent unavailable (import failed).">>)
                                  ELSE Some(<<"Disabled (trends=0 override or ENABLE_TRENDS_IN_NARRATIVE=0).">>)]
        e1 == IF games.error.some THEN put(NoErrors, "games_today", games.error.v) ELSE NoErrors
        e2 == IF odds.error.some THEN put(e1, "odds", odds.error.v) ELSE e1
        e3 == IF trends.error.some THEN put(e2, "trends", trends.error.v) ELSE e2
        e4 == IF props.error.some THEN put(e3, "player_props", props.error.v) ELSE e3
        narrative_data ==
            [games_today |-> count_of(games), player_trends |-> count_of(trends),
             team_trends |-> count_of(trends), player_props |-> count_of(props),
             odds |-> count_of(odds)]
        requested_mode == requested_mode_of(fr.mode)
        ai_requested == requested_mode = s_ai
        gate == generation_gate(fr.mode, fr.ai_allowed, narrative_data, e4, gen)
        v == validate_or_fallback(gate.candidate, gate.soft_errors, gate.ai_used,
                                  IF ai_requested THEN "AI" ELSE "Template")
        summary == put(v.summary, "metadata",
                       harden_metadata(get(v.summary, "metadata", <<>>), S.now, ai_requested,
                                       narrative_data, v.ai_used, fr.ai_allowed))
        source_status ==
            build_source_status(narrative_data.games_today, games.error,
                                narrative_data.odds, odds.error,
                                narrative_data.player_trends, narrative_data.team_trends,
                                trends.error, effective_trends,
                                narrative_data.player_props, props.error)
        rm == render_markdown(summary, FALSE)
        fail == <<"Markdown render failed", ": ", "Exception">>
        with_md == wants_markdown(fr.format)
        soft_final == IF with_md /\ rm.threw
                      THEN sanitize_soft_errors(put(v.soft_errors, "markdown", fail))
                      ELSE sanitize_soft_errors(v.soft_errors)
        meta ==
            [contract_version |-> CONTRACT_VERSION, request_id |-> f,
             latency_ms |-> S.now - fr.t0, source_status |-> source_status,
             cache_used |-> FALSE, cache_ttl_s |-> ttl, cache_key |-> key,
             cache_expires_in_s |-> ttl, soft_errors |-> soft_final,
             mode |-> requested_mode, trends_enabled_in_narrative |-> effective_trends,
             trends_override |-> override]
        ref == Len(S.heap) + 1
        resp ==
            [ok |-> TRUE, mode |-> requested_mode, ref |-> ref,
             markdown |-> IF ~with_md THEN Nothing
                          ELSE IF rm.threw
                          THEN Some(render_markdown(fallback_summary(fail), FALSE).text)
                          ELSE Some(rm.text)]
        S1 == [S EXCEPT !.heap = Append(@, [summary |-> summary, raw |-> narrative_data,
                                            meta |-> meta]),
                        !.frames[f].ai_invoked = gate.invoked,
                        !.frames[f].gen_threw = gate.threw,
                        !.frames[f].gen_value = IF gate.invoked /\ ~gate.threw
                                                THEN Some(gen.value) ELSE Nothing]
        S2 == release(cache_store(S1, key, ttl, resp), key)
    IN  today_return(S2, f, resp)

\* An exception that nothing catches leaves `async with lock:` (the lock is released
\* by __aexit__) and the handler; out of a nested call it goes on through the
\* `async with lock:` of /markdown, which has no try around the call
today_raise(S, f) ==
    LET S1 == [release(S, cache_key_of(S, S.frames[f])) EXCEPT !.frames[f].pc = "raised"]
    IN  IF Parent(f) = 0 THEN S1
        ELSE [release(S1, cache_key_of(S1, S1.frames[Parent(f)])) EXCEPT
                  !.frames[Parent(f)].pc = "raised"]

launch_trends_regardless(S, f) ==
    [S EXCEPT !.frames[f].pc = "gather",
              !.frames[f].src = [s \in Sources |-> "pending"]]

\* games_task, odds_task, player_props_task, and trends_task when trends are on and
\* the agent was imported; then `await asyncio.gather(...)`
launch(S, f) ==
    LET on == effective_of(S, S.frames[f]) /\ S.trends_agent
    IN  [S EXCEPT !.frames[f].pc = "gather",
                  !.frames[f].src = [s \in Sources |->
                                        IF s = "trends" /\ ~on THEN "none" ELSE "pending"]]

today_locked_without_recheck(S, f) == launch(S, f)

\* The body of `async with lock:` up to the first suspension
today_locked(S, f) ==
    LET key == cache_key_of(S, S.frames[f])
    IN  IF fresh(S, key)
        THEN today_return(release(serve_hit(S, f, key), key), f, S.CACHE[key].payload)
        ELSE launch(S, f)

\* Handler entry up to the first suspension.  The frame already holds the parameters.
today_enter(S0, f) ==
    LET S == [S0 EXCEPT !.frames[f].ai_allowed = S0.ai_env, !.frames[f].t0 = S0.now]
        key == cache_key_of(S, S.frames[f])
        L == ensure_lock(S, key)
    IN  IF fresh(S, key)
        THEN today_return(serve_hit(S, f, key), f, S.CACHE[key].payload)
        ELSE IF lock_is_free(L, key)
        THEN today_locked(acquire(L, key), f)
        ELSE [L EXCEPT !.LOCKS[key].waiters = Append(@, f),
                       !.frames[f].pc = "wait", !.frames[f].waited = TRUE]

-----------------------------------------------------------------------------
(* get_markdown_narrative *)

\* The body of `async with lock:` up to the nested call's first suspension:
\* data = await get_daily_narrative(mode=mode, cache_ttl=0, trends=trends, format="markdown")
markdown_locked(S, r) ==
    LET fr == S.frames[r]
        key == cache_key_of(S, fr)
    IN  IF fresh(S, key)
        THEN markdown_return(release(serve_hit(S, r, key), key), r, S.CACHE[key].payload)
        ELSE today_enter(
                [S EXCEPT !.frames[r].pc = "inner",
                          !.frames[Nested(r)] =
                              [IdleFrame EXCEPT !.ep = "today", !.mode = fr.mode,
                                                !.cache_ttl = 0, !.trends = fr.trends,
                                                !.format = Some(s_markdown)]],
                Nested(r))

markdown_enter(S0, r) ==
    LET S == [S0 EXCEPT !.frames[r].ai_allowed = S0.ai_env, !.frames[r].t0 = S0.now]
        key == cache_key_of(S, S.frames[r])
        L == ensure_lock(S, key)
    IN  IF fresh(S, key)
        THEN markdown_return(serve_hit(S, r, key), r, S.CACHE[key].payload)
        ELSE IF lock_is_free(L, key)
        THEN markdown_locked(acquire(L, key), r)
        ELSE [L EXCEPT !.LOCKS[key].waiters = Append(@, r),
                       !.frames[r].pc = "wait", !.frames[r].waited = TRUE]

-----------------------------------------------------------------------------
(* What the generation collaborator may return *)

cand_valid ==
    [macro_summary |-> <<"AI macro line">>,
     micro_summary |-> [key_edges |-> <<[value_label |-> "AI Edge"]>>, risk_score |-> 40,
                        risk_rationale |-> <<"AI rationale">>],
     analyst_takeaway |-> "AI takeaway",
     confidence_summary |-> <<"High">>,
     metadata |-> [model |-> "gpt-4o-mini", generated_at |-> -1, ai_used |-> FALSE,
                   ai_allowed |-> FALSE, prompt_version |-> "v0",
                   inputs_digest |-> <<"sha1">>]]

\* a dict with none of the required keys
cand_empty == [k \in {} |-> <<>>]

\* micro_summary and metadata present but not dicts
cand_bad_parts ==
    [macro_summary |-> <<"AI macro line">>, micro_summary |-> nondict("str"),
     metadata |-> nondict("list")]

\* an edge json.dumps cannot serialise: _render_markdown raises on it
cand_unrenderable ==
    [cand_valid EXCEPT !.micro_summary.key_edges = <<[unserialisable |-> TRUE]>>]

gen_throws == [threw |-> TRUE]
gen_returns(x) == [threw |-> FALSE, value |-> x]

AllGens ==
    {gen_throws, gen_returns(cand_valid), gen_returns(cand_empty),
     gen_returns(cand_bad_parts), gen_returns(cand_unrenderable),
     gen_returns(nondict("NoneType")), gen_returns(nondict("str"))}

-----------------------------------------------------------------------------
(* Actions.  M is the menu of inputs the environment draws from.           *)

Commit(S) ==
    /\ now' = S.now
    /\ ai_env' = S.ai_env
    /\ ENV_ENABLE_TRENDS' = S.env_trends
    /\ trends_agent' = S.trends_agent
    /\ CACHE' = S.CACHE
    /\ INFLIGHT_LOCKS' = S.LOCKS
    /\ heap' = S.heap
    /\ frames' = S.frames
    /\ UNCHANGED probe

\* requests are numbered in the order they arrive
Arrives(M, r) ==
    /\ r \in 1..NumReqs
    /\ r <= M.reqs
    /\ frames[r].pc = "idle"
    /\ \A q \in 1..(r - 1) : frames[q].pc # "idle"

\* GET /nba/narrative/today
RequestToday(M) ==
    \E r \in 1..NumReqs, mode \in M.modes, cache_ttl \in M.ttls,
       format \in M.formats, trends \in M.trends :
        /\ Arrives(M, r)
        /\ "today" \in M.eps
        /\ Commit(today_enter(
                [State EXCEPT !.frames[r] =
                    [IdleFrame EXCEPT !.ep = "today", !.mode = mode,
                                      !.cache_ttl = cache_ttl, !.format = format,
                                      !.trends = trends]], r))

\* GET /nba/narrative/markdown
RequestMarkdown(M) ==
    \E r \in 1..NumReqs, mode \in M.modes, cache_ttl \in M.ttls,
       compact \in M.compacts, trends \in M.trends :
        /\ Arrives(M, r)
        /\ "markdown" \in M.eps
        /\ Commit(markdown_enter(
                [State EXCEPT !.frames[r] =
                    [IdleFrame EXCEPT !.ep = "markdown", !.mode = mode,
                                      !.cache_ttl = cache_ttl, !.compact = compact,
                                      !.trends = trends]], r))

\* one source task of the fan-out settles: it returns data, returns nothing, or raises
SourceSettles(M) ==
    \E f \in Frames, s \in Sources, outcome \in M.outcomes :
        /\ frames[f].pc = "gather"
        /\ frames[f].src[s] = "pending"
        /\ Commit([State EXCEPT !.frames[f].src[s] = outcome])

GatherReturnsBeforeSettled(M) ==
    \E f \in Frames, gen \in M.gens :
        /\ frames[f].pc = "gather"
        /\ Commit(today_resume(State, f, gen))

\* asyncio.gather returns once every task has settled; the handler runs to its return
GatherReturns(M) ==
    \E f \in Frames, gen \in M.gens :
        /\ frames[f].pc = "gather"
        /\ \A s \in Sources : frames[f].src[s] # "pending"
        /\ Commit(today_resume(State, f, gen))

\* the handler raises after asyncio.gather, outside every try of the handler
HandlerFaults ==
    \E f \in Frames :
        /\ frames[f].pc = "gather"
        /\ \A s \in Sources : frames[f].src[s] # "pending"
        /\ Commit(today_raise(State, f))

\* the first waiter of a released lock runs
LockWakes ==
    \E key \in DOMAIN INFLIGHT_LOCKS :
        /\ ~INFLIGHT_LOCKS[key].locked
        /\ INFLIGHT_LOCKS[key].waiters # <<>>
        /\ LET f == Head(INFLIGHT_LOCKS[key].waiters)
               S == [State EXCEPT !.LOCKS[key] = [locked |-> TRUE, waiters |-> Tail(@.waiters)]]
           IN  Commit(IF frames[f].ep = "today" THEN today_locked(S, f)
                      ELSE markdown_locked(S, f))

\* time passes between two steps of the event loop
Tick ==
    /\ now + TickStep <= MaxTime
    /\ now' = now + TickStep
    /\ UNCHANGED <<ai_env, ENV_ENABLE_TRENDS, trends_agent, CACHE, INFLIGHT_LOCKS,
                   heap, frames, probe>>

\* OPENAI_API_KEY / DISABLE_AI change: _ai_allowed() is evaluated afresh per call
AiEnvChanges ==
    /\ ai_env' = ~ai_env
    /\ UNCHANGED <<now, ENV_ENABLE_TRENDS, trends_agent, CACHE, INFLIGHT_LOCKS,
                   heap, frames, probe>>

NoProbe == [a |-> Nothing, la |-> Nothing, b |-> Nothing, lb |-> Nothing]

InitOf(M) ==
    /\ now = 0
    /\ ai_env \in M.ai_init
    /\ ENV_ENABLE_TRENDS \in M.env_trends
    /\ trends_agent \in M.agent
    /\ CACHE = [k \in {} |-> <<>>]
    /\ INFLIGHT_LOCKS = [k \in {} |-> <<>>]
    /\ heap = <<>>
    /\ frames = [f \in Frames |-> IdleFrame]
    /\ probe = NoProbe

NextOf(M) ==
    \/ RequestToday(M)
    \/ RequestMarkdown(M)
    \/ SourceSettles(M)
    \/ GatherReturns(M)
    \/ LockWakes
    \/ Tick

\* Concurrent requests against the cache and the locks: both endpoints, caching off
\* and on (99999 is capped), healthy sources
MainMenu ==
    [reqs |-> NumReqs, eps |-> {"today", "markdown"},
     modes |-> {s_template}, ttls |-> {0, 99999},
     formats |-> {Nothing, Some(s_markdown)}, trends |-> {Nothing},
     compacts |-> {FALSE}, outcomes |-> {"data"},
     gens |-> {gen_returns(cand_valid)},
     ai_init |-> {TRUE}, env_trends |-> {FALSE}, agent |-> {TRUE}]

Init == InitOf(MainMenu)
Next == NextOf(MainMenu)
Spec == Init /\ [][Next]_vars

\* One request under every failure: each source may raise, the generator may raise
\* or return anything, AI allowed or not, trends on or off, the agent imported or not
FaultMenu ==
    [reqs |-> 1, eps |-> {"today", "markdown"},
     modes |-> {s_ai, s_AI, s_template, s_x}, ttls |-> {60},
     formats |-> {Nothing, Some(s_markdown)}, trends |-> {Nothing, Some(1)},
     compacts |-> {FALSE, TRUE}, outcomes |-> {"data", "err"},
     gens |-> AllGens,
     ai_init |-> {TRUE}, env_trends |-> {FALSE}, agent |-> BOOLEAN]

InitFault == InitOf(FaultMenu)
NextFault ==
    \/ RequestToday(FaultMenu)
    \/ RequestMarkdown(FaultMenu)
    \/ SourceSettles(FaultMenu)
    \/ GatherReturns(FaultMenu)
    \/ AiEnvChanges
SpecFault == InitFault /\ [][NextFault]_vars

\* Two requests, cached, under failures: sources raise, the generator raises or
\* returns what cannot be rendered, the AI setting changes between calls
GateMenu ==
    [reqs |-> NumReqs, eps |-> {"today", "markdown"},
     modes |-> {s_ai}, ttls |-> {60},
     formats |-> {Some(s_markdown)}, trends |-> {Nothing},
     compacts |-> {FALSE}, outcomes |-> {"data", "err"},
     gens |-> {gen_throws, gen_returns(cand_unrenderable)},
     ai_init |-> {TRUE}, env_trends |-> {FALSE}, agent |-> {TRUE}]

InitGate == InitOf(GateMenu)
NextGate ==
    \/ RequestToday(GateMenu)
    \/ RequestMarkdown(GateMenu)
    \/ SourceSettles(GateMenu)
    \/ GatherReturns(GateMenu)
    \/ LockWakes
    \/ AiEnvChanges
SpecGate == InitGate /\ [][NextGate]_vars

\* Two cached requests over every trends setting under both server defaults
ParamMenu ==
    [reqs |-> NumReqs, eps |-> {"today", "markdown"},
     modes |-> {s_template}, ttls |-> {60},
     formats |-> {Nothing}, trends |-> {Nothing, Some(0), Some(1)},
     compacts |-> {FALSE}, outcomes |-> {"data"},
     gens |-> {gen_returns(cand_valid)},
     ai_init |-> {TRUE}, env_trends |-> BOOLEAN, agent |-> {TRUE}]

InitParam == InitOf(ParamMenu)
NextParam == NextOf(ParamMenu)
SpecParam == InitParam /\ [][NextParam]_vars

\* Two /today requests whose mode and format contain the key's own delimiters
CollideMenu ==
    [reqs |-> NumReqs, eps |-> {"today"},
     modes |-> {s_x, s_x_ttl60}, ttls |-> {0, 60},
     formats |-> {Some(s_z), Some(s_y_ttl0)}, trends |-> {Nothing},
     compacts |-> {FALSE}, outcomes |-> {"data"},
     gens |-> {gen_returns(cand_valid)},
     ai_init |-> {TRUE}, env_trends |-> {FALSE}, agent |-> {TRUE}]

InitCollide == InitOf(CollideMenu)
NextCollide ==
    \/ RequestToday(CollideMenu)
    \/ SourceSettles(CollideMenu)
    \/ GatherReturns(CollideMenu)
    \/ LockWakes
    \/ Tick
SpecCollide == InitCollide /\ [][NextCollide]_vars

\* A /today and a /markdown request whose mode and format contain the key's own
\* delimiters and the other endpoint's scope
CrossMenu ==
    [reqs |-> NumReqs, eps |-> {"today", "markdown"},
     modes |-> {s_x, s_x_ttl60}, ttls |-> {0, 60},
     formats |-> {Some(s_y_ttl0_markdown)}, trends |-> {Nothing},
     compacts |-> {FALSE}, outcomes |-> {"data"},
     gens |-> {gen_returns(cand_valid)},
     ai_init |-> {TRUE}, env_trends |-> {FALSE}, agent |-> {TRUE}]

InitCross == InitOf(CrossMenu)
NextCross ==
    \/ RequestToday(CrossMenu)
    \/ RequestMarkdown(CrossMenu)
    \/ SourceSettles(CrossMenu)
    \/ GatherReturns(CrossMenu)
    \/ LockWakes
SpecCross == InitCross /\ [][NextCross]_vars

\* One request in template mode whose sources return data, return nothing (an empty
\* list or response), or raise
WrapMenu ==
    [reqs |-> 1, eps |-> {"today", "markdown"},
     modes |-> {s_template}, ttls |-> {0, 60},
     formats |-> {Nothing}, trends |-> {Nothing, Some(0), Some(1)},
     compacts |-> {FALSE}, outcomes |-> {"data", "empty", "err"},
     gens |-> {gen_returns(cand_valid)},
     ai_init |-> {TRUE}, env_trends |-> BOOLEAN, agent |-> BOOLEAN]

InitWrap == InitOf(WrapMenu)
NextWrap ==
    \/ RequestToday(WrapMenu)
    \/ RequestMarkdown(WrapMenu)
    \/ SourceSettles(WrapMenu)
    \/ GatherReturns(WrapMenu)
SpecWrap == InitWrap /\ [][NextWrap]_vars

\* Requests that contend for the locks, every call that starts being run on: a
\* source fetch settles, the handler returns or raises, a waiter of a free lock runs
LiveMenu ==
    [reqs |-> NumReqs, eps |-> {"today", "markdown"},
     modes |-> {s_template}, ttls |-> {0, 60},
     formats |-> {Some(s_markdown)}, trends |-> {Nothing},
     compacts |-> {FALSE}, outcomes |-> {"data"},
     gens |-> {gen_returns(cand_valid)},
     ai_init |-> {TRUE}, env_trends |-> {FALSE}, agent |-> {TRUE}]

InitLive == InitOf(LiveMenu)
NextLive ==
    \/ RequestToday(LiveMenu)
    \/ RequestMarkdown(LiveMenu)
    \/ SourceSettles(LiveMenu)
    \/ GatherReturns(LiveMenu)
    \/ HandlerFaults
    \/ LockWakes
\* the event loop runs on a call whose awaited fetches have all settled: the call
\* leaves the await by raising or by returning
RunsOn ==
    \E f \in Frames :
        /\ frames[f].pc = "gather"
        /\ \A s \in Sources : frames[f].src[s] # "pending"
        /\ frames'[f].pc # "gather"
\* a lock is free and has a waiter: LockWakes is enabled
WakeDue ==
    \E key \in DOMAIN INFLIGHT_LOCKS :
        ~INFLIGHT_LOCKS[key].locked /\ INFLIGHT_LOCKS[key].waiters # <<>>
\* Every fetch started settles; a call whose fetches have settled runs on; the
\* waiter of a free lock is woken (weak fairness of LockWakes, stated by its
\* enabling condition: each wake takes one waiter off a queue and only a new
\* request adds one, so LockWakes cannot be taken for ever)
FairLive ==
    /\ WF_vars(SourceSettles(LiveMenu))
    /\ WF_vars(HandlerFaults \/ RunsOn)
    /\ []<>(~WakeDue)
SpecLive == InitLive /\ [][NextLive]_vars /\ FairLive

\* Two /markdown requests in AI mode while the AI setting changes and time passes:
\* a request may wait for the key's lock, and find the entry expired when it runs
FlipMenu ==
    [reqs |-> NumReqs, eps |-> {"markdown"},
     modes |-> {s_ai}, ttls |-> {0, 60},
     formats |-> {Nothing}, trends |-> {Nothing},
     compacts |-> {FALSE}, outcomes |-> {"data"},
     gens |-> {gen_returns(cand_valid)},
     ai_init |-> {TRUE}, env_trends |-> {FALSE}, agent |-> {TRUE}]

InitFlip == InitOf(FlipMenu)
NextFlip ==
    \/ RequestMarkdown(FlipMenu)
    \/ SourceSettles(FlipMenu)
    \/ GatherReturns(FlipMenu)
    \/ LockWakes
    \/ Tick
    \/ AiEnvChanges
SpecFlip == InitFlip /\ [][NextFlip]_vars

\* Two requests with caching on, below the ceiling (60) and above it (99999),
\* while time passes: hits at the instant of the store and one tick later
HitMenu ==
    [reqs |-> NumReqs, eps |-> {"today", "markdown"},
     modes |-> {s_template}, ttls |-> {60, 99999},
     formats |-> {Nothing}, trends |-> {Nothing},
     compacts |-> {FALSE}, outcomes |-> {"data"},
     gens |-> {gen_returns(cand_valid)},
     ai_init |-> {TRUE}, env_trends |-> {FALSE}, agent |-> {TRUE}]

InitHit == InitOf(HitMenu)
NextHit == NextOf(HitMenu)
SpecHit == InitHit /\ [][NextHit]_vars

\* Two requests, caching off or on, either mode, trends by default or switched on,
\* while the generator may raise
SoftMenu ==
    [reqs |-> NumReqs, eps |-> {"today", "markdown"},
     modes |-> {s_ai, s_template}, ttls |-> {0, 60},
     formats |-> {Nothing}, trends |-> {Nothing, Some(1)},
     compacts |-> {FALSE}, outcomes |-> {"data"},
     gens |-> {gen_returns(cand_valid), gen_throws},
     ai_init |-> {TRUE}, env_trends |-> {FALSE}, agent |-> {TRUE}]

InitSoft == InitOf(SoftMenu)
NextSoft ==
    \/ RequestToday(SoftMenu)
    \/ RequestMarkdown(SoftMenu)
    \/ SourceSettles(SoftMenu)
    \/ GatherReturns(SoftMenu)
    \/ LockWakes
SpecSoft == InitSoft /\ [][NextSoft]_vars

-----------------------------------------------------------------------------
(* Key building and TTL capping on their own: one call's parameters (a), its *)
(* entry locals (la), and a second call (b, lb) that differs from the first  *)
(* in one parameter.                                                         *)

ProbeModes == {s_ai, s_AI, s_template, s_empty}
ProbeTtls == {-5, 0, 60, 120, 121, 99999}
ProbeFormats == {Nothing, Some(s_empty), Some(s_markdown), Some(s_Markdown),
                 Some(s_sp_markdown), Some(s_json)}
ProbeTrends == {Nothing, Some(0), Some(1)}

\* the parameter tuples the two handlers can be called with
ProbeParams ==
    {[ep |-> "today", mode |-> m, cache_ttl |-> t, format |-> fm, trends |-> tr,
      compact |-> FALSE, ai_allowed |-> ai]
        : m \in ProbeModes, t \in ProbeTtls, fm \in ProbeFormats, tr \in ProbeTrends,
          ai \in BOOLEAN}
    \cup
    {[ep |-> "markdown", mode |-> m, cache_ttl |-> t, format |-> Nothing, trends |-> tr,
      compact |-> c, ai_allowed |-> ai]
        : m \in ProbeModes, t \in ProbeTtls, tr \in ProbeTrends, c \in BOOLEAN,
          ai \in BOOLEAN}

InitKey ==
    /\ now = 0
    /\ ai_env = TRUE
    /\ ENV_ENABLE_TRENDS \in BOOLEAN
    /\ trends_agent = TRUE
    /\ CACHE = [k \in {} |-> <<>>]
    /\ INFLIGHT_LOCKS = [k \in {} |-> <<>>]
    /\ heap = <<>>
    /\ frames = [f \in Frames |-> IdleFrame]
    /\ \E p \in ProbeParams : probe = [NoProbe EXCEPT !.a = Some(p)]

ProbeUnchanged ==
    UNCHANGED <<now, ai_env, ENV_ENABLE_TRENDS, trends_agent, CACHE, INFLIGHT_LOCKS,
                heap, frames>>

\* the first call computes its locals
ProbeEnter ==
    /\ probe.a.some /\ ~probe.la.some
    /\ probe' = [probe EXCEPT !.la = Some(locals_of(probe.a.v, ENV_ENABLE_TRENDS))]
    /\ ProbeUnchanged

Second(p) ==
    /\ probe.la.some /\ ~probe.b.some
    /\ p # probe.a.v
    /\ probe' = [probe EXCEPT !.b = Some(p), !.lb = Some(locals_of(p, ENV_ENABLE_TRENDS))]
    /\ ProbeUnchanged

ChangeMode == \E m \in ProbeModes : Second([probe.a.v EXCEPT !.mode = m])

ChangeTtl == \E t \in ProbeTtls : Second([probe.a.v EXCEPT !.cache_ttl = t])

ChangeFormat ==
    \E fm \in ProbeFormats : probe.a.v.ep = "today" /\ Second([probe.a.v EXCEPT !.format = fm])

ChangeTrends == \E tr \in ProbeTrends : Second([probe.a.v EXCEPT !.trends = tr])

ChangeCompact ==
    probe.a.v.ep = "markdown" /\ Second([probe.a.v EXCEPT !.compact = ~@])

ChangeAiAllowed == Second([probe.a.v EXCEPT !.ai_allowed = ~@])

NextKey ==
    \/ ProbeEnter
    \/ ChangeMode
    \/ ChangeTtl
    \/ ChangeFormat
    \/ ChangeTrends
    \/ ChangeCompact
    \/ ChangeAiAllowed

SpecKey == InitKey /\ [][NextKey]_vars

-----------------------------------------------------------------------------
(* Soft-error sanitising on its own: a map handed to _sanitize_soft_errors  *)
(* (a), what it returns (la), and that result sanitised once more (lb), as  *)
(* /markdown does with the map /today returned.                             *)

\* allowed keys, a key nobody registered, and an allowed key in the wrong case
ProbeKeys == {"ai", "trends", "markdown", "UNEXPECTED_KEY", "AI"}

\* per key: no entry, a message, or None
ProbeEntries == [ProbeKeys -> {"absent", "message", "none"}]

entries_of(e) ==
    [k \in {x \in ProbeKeys : e[x] # "absent"} |->
        IF e[k] = "message" THEN <<k, ": ", "Exception">> ELSE NoneValue]

ProbeSoftErrors ==
    {entries_of(e) : e \in ProbeEntries} \cup {nondict("NoneType"), nondict("list")}

InitSanitize ==
    /\ now = 0
    /\ ai_env = TRUE
    /\ ENV_ENABLE_TRENDS = FALSE
    /\ trends_agent = TRUE
    /\ CACHE = [k \in {} |-> <<>>]
    /\ INFLIGHT_LOCKS = [k \in {} |-> <<>>]
    /\ heap = <<>>
    /\ frames = [f \in Frames |-> IdleFrame]
    /\ \E d \in ProbeSoftErrors : probe = [NoProbe EXCEPT !.a = Some(d)]

\* soft_errors_sanitized = _sanitize_soft_errors(soft_errors)
Sanitize ==
    /\ probe.a.some /\ ~probe.la.some
    /\ probe' = [probe EXCEPT !.la = Some(sanitize_soft_errors(probe.a.v))]
    /\ ProbeUnchanged

\* meta["soft_errors"] = _sanitize_soft_errors(meta.get("soft_errors", {}))
SanitizeAgain ==
    /\ probe.la.some /\ ~probe.lb.some
    /\ probe' = [probe EXCEPT !.lb = Some(sanitize_soft_errors(probe.la.v))]
    /\ ProbeUnchanged

NextSanitize == Sanitize \/ SanitizeAgain

SpecSanitize == InitSanitize /\ [][NextSanitize]_vars

\* The same probe with values of every kind: a message, the empty string, None, and
\* a value that is not a string
TypedKeys == {"ai", "template", "UNEXPECTED_KEY", "AI"}

TypedEntries == [TypedKeys -> {"absent", "message", "empty", "none", "int"}]

typed_entries_of(e) ==
    [k \in {x \in TypedKeys : e[x] # "absent"} |->
        IF e[k] = "message" THEN <<k, ": ", "Exception">>
        ELSE IF e[k] = "empty" THEN <<>>
        ELSE IF e[k] = "none" THEN NoneValue
        ELSE IntValue]

TypedSoftErrors ==
    {typed_entries_of(e) : e \in TypedEntries}
        \cup {nondict("NoneType"), nondict("list"), nondict("str")}

InitTyped ==
    /\ now = 0
    /\ ai_env = TRUE
    /\ ENV_ENABLE_TRENDS = FALSE
    /\ trends_agent = TRUE
    /\ CACHE = [k \in {} |-> <<>>]
    /\ INFLIGHT_LOCKS = [k \in {} |-> <<>>]
    /\ heap = <<>>
    /\ frames = [f \in Frames |-> IdleFrame]
    /\ \E d \in TypedSoftErrors : probe = [NoProbe EXCEPT !.a = Some(d)]

NextTyped == Sanitize \/ SanitizeAgain

SpecTyped == InitTyped /\ [][NextTyped]_vars

-----------------------------------------------------------------------------
(* Properties of the cache and the in-flight locks (Spec) *)

Done(f) == frames[f].pc = "done"
Resp(f) == frames[f].resp.v
KeyOf(f) == cache_key_of(State, frames[f])
TtlOf(f) == ttl_of(frames[f])

\* holding the key's lock, suspended in the fan-out or in the nested call
InSection(f) == frames[f].pc \in {"gather", "inner"}

\* the response was served from the cache / was generated for this request
Served(f) == Done(f) /\ Resp(f).meta.cache_used
Generated(f) == Done(f) /\ ~Resp(f).meta.cache_used
GeneratedAt(f) == Resp(f).summary["metadata"]["generated_at"]

PerResponseMeta ==
    {"latency_ms", "cache_used", "cache_key", "cache_ttl_s", "cache_expires_in_s",
     "request_id"}

SameBody(a, b) ==
    /\ a.ok = b.ok /\ a.mode = b.mode /\ a.markdown = b.markdown
    /\ a.summary = b.summary /\ a.raw = b.raw
    /\ \A k \in DOMAIN a.meta \ PerResponseMeta : a.meta[k] = b.meta[k]

Distance(x, y) == IF x >= y THEN x - y ELSE y - x

\* C1 as stated: a request that arrived while another request for its key was in
\* flight and the key had no fresh entry (it had to wait for the lock) never runs
\* the fan-out and generation itself: the path runs once for all of them.
C1_ConcurrentExactlyOnce ==
    \A g \in 1..NumReqs :
        frames[g].waited => ~InSection(g) /\ ~Generated(g)

\* C1 amended: with an effective TTL above 0 the path runs at most once per TTL
\* window for a key: a response served from the cache is the payload one other
\* request of that key generated, identical to that request's response apart from
\* the per-response meta fields (latency_ms, cache_used, cache_key, cache_ttl_s,
\* cache_expires_in_s, request_id), and two generations for one key are at least the
\* TTL apart.  (With TTL 0 nothing is stored and every request runs the path.)
C1_OncePerTtlWindow ==
    \A f \in Frames :
        Done(f) /\ TtlOf(f) > 0 =>
            /\ Served(f) =>
                  \E g \in Frames \ {f} :
                      /\ Generated(g) /\ KeyOf(g) = KeyOf(f)
                      /\ Resp(g).ref = Resp(f).ref
                      /\ SameBody(Resp(f), Resp(g))
            /\ Generated(f) =>
                  \A g \in Frames \ {f} :
                      Generated(g) /\ KeyOf(g) = KeyOf(f)
                          => Distance(GeneratedAt(f), GeneratedAt(g)) >= TtlOf(f)

\* a request waited for the lock of a key another request was generating, and was
\* then served what that request stored
C1_Witness ==
    \E f, g \in 1..NumReqs :
        /\ f # g /\ KeyOf(f) = KeyOf(g) /\ TtlOf(g) > 0
        /\ Generated(f) /\ Served(g) /\ frames[g].waited

\* C2: for each cache key at most one request is inside the fan-out and generation
\* section (between acquiring the key's lock and returning), and it holds the lock.
C2_OneInFlightPerKey ==
    \A f \in Frames :
        InSection(f) =>
            /\ KeyOf(f) \in DOMAIN INFLIGHT_LOCKS /\ INFLIGHT_LOCKS[KeyOf(f)].locked
            /\ \A g \in Frames \ {f} : InSection(g) => KeyOf(g) # KeyOf(f)

\* one request is in the section and another one waits for the same key's lock
C2_Witness ==
    \E f, g \in Frames :
        /\ InSection(f) /\ frames[g].pc = "wait" /\ KeyOf(f) = KeyOf(g)
        /\ g \in Range(INFLIGHT_LOCKS[KeyOf(f)].waiters)

\* the handler of frame f runs its cache lookup in this step: on entry, and again
\* when it gets the lock
LooksUp(f) == frames[f].pc \in {"idle", "wait"} /\ frames'[f].pc # frames[f].pc

ExpiredIn(key) == key \in DOMAIN CACHE /\ CACHE[key].expires_at <= now
FreshIn(key) == key \in DOMAIN CACHE /\ CACHE[key].expires_at > now

\* C9: a payload is served from the cache only if now < expires_at at the lookup (a
\* lookup at or after expires_at is a miss); expires_at is at most 120 after the
\* entry was stored; so no response with cache_used=true carries a payload that was
\* generated 120 or more time units before.
C9_NoStaleHit ==
    [][/\ \A k \in DOMAIN CACHE' :
             LET stored_at ==
                    heap'[CACHE'[k].payload.ref].summary["metadata"]["generated_at"]
             IN  CACHE'[k].expires_at - stored_at <= 120
       /\ \A f \in Frames :
             LooksUp(f) =>
                 /\ Served(f)' =>
                       /\ FreshIn(KeyOf(f)')
                       /\ Resp(f)'.meta.cache_expires_in_s > 0
                       /\ now' - GeneratedAt(f)' < 120
                 /\ ExpiredIn(KeyOf(f)') => ~Served(f)']_vars

\* a response served from the cache some time after the payload was stored
C9_Witness ==
    \E f \in Frames :
        /\ Served(f)
        /\ Resp(f).meta.cache_expires_in_s < TtlOf(f)
        /\ Resp(f).meta.cache_ttl_s = 120

-----------------------------------------------------------------------------
(* Properties of degraded and of parameterised requests (SpecFault, SpecGate, *)
(* SpecParam)                                                                *)

\* the get_daily_narrative call that ran the fan-out for request r
Worker(r) == IF frames[r].ep = "markdown" THEN Nested(r) ELSE r

AllSourcesThrew(w) == \A s \in Sources : frames[w].src[s] = "err"

MarkdownRequested(r) == frames[r].ep = "markdown" \/ wants_markdown(frames[r].format)

\* mode=ai with AI allowed, every source fetch raised and the generator raised
TotalFailure(r) ==
    /\ Generated(r)
    /\ requested_mode_of(frames[Worker(r)].mode) = s_ai
    /\ frames[Worker(r)].ai_allowed
    /\ AllSourcesThrew(Worker(r))
    /\ frames[Worker(r)].gen_threw

\* C3: mode=ai, AI allowed, every source fetch (schedule, odds, props, trends)
\* raises and the generator raises: the response still has ok=true, a non-empty
\* markdown string when markdown is requested, and soft_errors has an entry for
\* games_today, odds, player_props, trends and ai.
C3_TotalFailureStillOk ==
    \A r \in 1..NumReqs :
        TotalFailure(r) =>
            /\ Resp(r).ok = TRUE
            /\ MarkdownRequested(r) =>
                  Resp(r).markdown.some /\ Len(Resp(r).markdown.v) > 0
            /\ {"games_today", "odds", "player_props", "trends", "ai"}
                  \subseteq DOMAIN Resp(r).meta.soft_errors

\* a /markdown request whose four sources and whose generator all raised has returned
C3_Witness ==
    \E r \in 1..NumReqs :
        TotalFailure(r) /\ frames[r].ep = "markdown" /\ Resp(r).markdown.some

\* C4: every response of /today and /markdown, generated or served from the cache,
\* has ok=true, whatever failed: sources, AI disabled, the generator raising or
\* returning what is invalid, markdown rendering.  So has every cached payload.
C4_AlwaysOk ==
    /\ \A f \in Frames : Done(f) => Resp(f).ok = TRUE
    /\ \A k \in DOMAIN CACHE : CACHE[k].payload.ok = TRUE

\* a response served from the cache whose payload records a failed source and a
\* markdown rendering failure
C4_Witness ==
    \E f, g \in 1..NumReqs :
        /\ Generated(g) /\ Served(f) /\ Resp(f).ref = Resp(g).ref
        /\ {"games_today", "markdown"} \subseteq DOMAIN Resp(f).meta.soft_errors

\* all parameters but trends are equal
SameButTrends(f, g) ==
    /\ frames[f].ep = frames[g].ep /\ frames[f].mode = frames[g].mode
    /\ TtlOf(f) = TtlOf(g) /\ fmt_key(frames[f].format) = fmt_key(frames[g].format)
    /\ frames[f].compact = frames[g].compact
    /\ frames[f].ai_allowed = frames[g].ai_allowed

\* C5: a request with trends=1 is never served the payload generated for trends=0,
\* nor the reverse, all other parameters equal: what it is served was generated
\* for its own setting (cache_used=false on the first use of the setting), its
\* trends_enabled_in_narrative is its own setting, and its player_trends is empty
\* when its setting is off.
C5_TrendsPartitioned ==
    \A r \in 1..NumReqs :
        Done(r) /\ frames[r].trends.some =>
            LET on == frames[r].trends.v # 0
            IN  /\ Resp(r).meta.trends_enabled_in_narrative = on
                /\ Resp(r).meta.trends_override = Some(on)
                /\ ~on => Resp(r).raw.player_trends = 0
                /\ \A g \in 1..NumReqs \ {r} :
                      /\ Done(g) /\ SameButTrends(r, g)
                      /\ override_of(frames[g]) # override_of(frames[r])
                      => Resp(g).ref # Resp(r).ref
                /\ Served(r) =>
                      \E g \in 1..NumReqs \ {r} :
                          /\ Generated(g) /\ Resp(g).ref = Resp(r).ref
                          /\ SameButTrends(r, g)
                          /\ override_of(frames[g]) = override_of(frames[r])

\* trends=0 was generated and stored; a later request, equal but for trends=1, has
\* been answered
C5_Witness ==
    \E f, g \in 1..NumReqs :
        /\ f < g /\ SameButTrends(f, g)
        /\ frames[f].trends = Some(0) /\ frames[g].trends = Some(1)
        /\ Generated(f) /\ Done(g)
        /\ KeyOf(f) \in DOMAIN CACHE /\ CACHE[KeyOf(f)].expires_at > frames[g].t0
        /\ frames[g].t0 >= GeneratedAt(f)
        /\ Resp(g).raw.player_trends > 0

-----------------------------------------------------------------------------
(* Properties of key building and of the TTL cap (SpecKey) *)

BothProbed == probe.la.some /\ probe.lb.some

\* C6: any two requests that are given the same cache key would produce the same
\* response body (same mode field, markdown embedded or not, same generator, same
\* trends setting): requests whose bodies differ never share a key.
C6_SameKeySameBody ==
    BothProbed /\ probe.la.v.cache_key = probe.lb.v.cache_key
        => probe.la.v.body = probe.lb.v.body

\* C7 as stated: changing any one of mode, trendsOverride, format, compact or
\* aiAllowed, the rest held fixed, changes the key.
C7_AnyChangeChangesKey ==
    BothProbed /\ probe.a.v.cache_ttl = probe.b.v.cache_ttl
        => probe.la.v.cache_key # probe.lb.v.cache_key

\* C7 amended: changing the mode, the parsed trends override (None, False, True),
\* compact, aiAllowed, or the format to one whose normalised form (stripped,
\* lower-cased, None and "" read as "none") differs, changes the key; formats with
\* the same normalised form share it.
C7_KeySeparation ==
    BothProbed =>
        LET a == probe.a.v
            b == probe.b.v
        IN  /\ ( \/ a.mode # b.mode
                 \/ probe.la.v.override # probe.lb.v.override
                 \/ fmt_key(a.format) # fmt_key(b.format)
                 \/ a.compact # b.compact
                 \/ a.ai_allowed # b.ai_allowed )
                    => probe.la.v.cache_key # probe.lb.v.cache_key
            /\ ( /\ a.format # b.format
                 /\ fmt_key(a.format) = fmt_key(b.format) )
                    => probe.la.v.cache_key = probe.lb.v.cache_key

\* the override is omitted in one call and an explicit 0 in the other, the effective
\* value being off in both, and the two keys have been built
C7_Witness ==
    /\ BothProbed
    /\ ~probe.a.v.trends.some /\ probe.b.v.trends = Some(0)
    /\ ~probe.la.v.effective_trends /\ ~probe.lb.v.effective_trends

\* C8: the effective TTL is max(0, min(cache_ttl, 120)): at most 120, never
\* negative, cache_ttl itself within 0..120; it is the TTL the response reports.
C8_TtlCapped ==
    probe.la.some =>
        LET t == probe.a.v.cache_ttl
            eff == probe.la.v.ttl
        IN  /\ eff = (IF t < 0 THEN 0 ELSE IF t > 120 THEN 120 ELSE t)
            /\ eff <= 120 /\ eff >= 0
            /\ probe.la.v.body.cache_ttl_s = eff
            /\ (probe.lb.some => probe.lb.v.ttl <= 120 /\ probe.lb.v.ttl >= 0)

\* cache_ttl=99999 has been capped to 120
C8_Witness ==
    probe.la.some /\ probe.a.v.cache_ttl = 99999 /\ probe.la.v.ttl = 120

-----------------------------------------------------------------------------
(* Properties of TTL 0 and of cache hits (SpecCollide, Spec) *)

\* the top-level request whose coroutine runs in this step
Acts(r) == frames'[r] # frames[r] \/ frames'[Nested(r)] # frames[Nested(r)]

\* C11: a request whose effective TTL is 0 is never served from the cache
\* (cache_used=false) and leaves the cache as it was: it creates and overwrites no
\* entry.
C11_TtlZeroBypassesCache ==
    [][\A r \in 1..NumReqs :
          Acts(r) /\ ttl_of(frames'[r]) = 0 =>
              /\ CACHE' = CACHE
              /\ Done(r)' => ~Resp(r)'.meta.cache_used]_vars

\* request b carries the parameters of request a
Identical(a, b) ==
    /\ frames'[b].ep = frames[a].ep
    /\ frames'[b].mode = frames[a].mode
    /\ frames'[b].cache_ttl = frames[a].cache_ttl
    /\ frames'[b].format = frames[a].format
    /\ frames'[b].trends = frames[a].trends
    /\ frames'[b].compact = frames[a].compact

\* request b arrives in this step, after a was answered with a generated payload
\* and before a's TTL has run out
SecondWithinTtl(a, b) ==
    /\ a # b
    /\ Generated(a)
    /\ TtlOf(a) > 0
    /\ now < GeneratedAt(a) + TtlOf(a)
    /\ frames[b].pc = "idle"
    /\ frames'[b].pc # "idle"
    /\ Identical(a, b)

-----------------------------------------------------------------------------
(* Properties of the generation gate and of soft errors (SpecFault) *)

AiRequested(r) == requested_mode_of(frames[Worker(r)].mode) = s_ai

\* no source fetch of request r raised
SourcesHealthy(r) == \A s \in Sources : frames[Worker(r)].src[s] # "err"

\* the trends source was fetched: trends effectively on and the agent imported
TrendsFetched(r) == frames[Worker(r)].src["trends"] # "none"

\* the generator was called and returned v
GeneratorReturned(r, v) == frames[Worker(r)].gen_value = Some(v)

\* cold cache, all sources healthy, AI allowed, mode=ai, a valid object generated
HealthyAiRequest(r) ==
    /\ Generated(r)
    /\ AiRequested(r)
    /\ frames[Worker(r)].ai_allowed
    /\ SourcesHealthy(r)
    /\ GeneratorReturned(r, cand_valid)

\* C13 (as stated): on a cold cache with all sources healthy, AI allowed and
\* mode=ai with a valid object generated, the response has ai_used=true,
\* soft_errors={} and cache_used=false.
C13_HealthyAiNoSoftErrors ==
    \A r \in 1..NumReqs :
        HealthyAiRequest(r) =>
            /\ Resp(r).summary["metadata"]["ai_used"] = TRUE
            /\ Resp(r).meta.soft_errors = NoErrors
            /\ ~Resp(r).meta.cache_used

\* C13 (amended): on a cold cache with all sources healthy, AI allowed and mode=ai
\* with a valid object generated, the response has ai_used=true and
\* cache_used=false; soft_errors is {} when the trends source was fetched (trends
\* effectively on and the agent imported), and otherwise holds exactly one entry,
\* under trends, naming why trends were not fetched.
C13_HealthyAiTrendsNoted ==
    \A r \in 1..NumReqs :
        HealthyAiRequest(r) =>
            /\ Resp(r).summary["metadata"]["ai_used"] = TRUE
            /\ ~Resp(r).meta.cache_used
            /\ TrendsFetched(r) => Resp(r).meta.soft_errors = NoErrors
            /\ ~TrendsFetched(r) =>
                  /\ DOMAIN Resp(r).meta.soft_errors = {"trends"}
                  /\ Len(Resp(r).meta.soft_errors["trends"]) > 0

\* a healthy AI request with trends fetched, answered without soft errors
C13_Witness ==
    \E r \in 1..NumReqs :
        HealthyAiRequest(r) /\ TrendsFetched(r) /\ Resp(r).meta.soft_errors = NoErrors

\* the summary is _fallback_summary(reason), its metadata completed by the handler
IsFallback(summary, reason) ==
    /\ \A k \in {"macro_summary", "micro_summary", "analyst_takeaway", "confidence_summary"} :
          summary[k] = fallback_summary(reason)[k]
    /\ summary["metadata"]["model"] = "ROUTE_FALLBACK"

\* a soft error recorded under key k, as a non-empty string
HasError(r, k) ==
    /\ k \in DOMAIN Resp(r).meta.soft_errors
    /\ Len(Resp(r).meta.soft_errors[k]) > 0

MarkdownNonEmpty(r) == Resp(r).markdown.some /\ Len(Resp(r).markdown.v) > 0

\* mode=ai asked of a handler for which _ai_allowed() returned False
AiBlocked(r) == Generated(r) /\ AiRequested(r) /\ ~frames[Worker(r)].ai_allowed

\* C14: when mode=ai and AI is not allowed, the generator is never invoked for the
\* request, the summary is the canonical fallback, soft_errors.ai is a non-empty
\* string, ai_used=false, markdown (when requested) is non-empty, and ok=true.
C14_BlockedAiFallsBack ==
    \A r \in 1..NumReqs :
        AiBlocked(r) =>
            /\ ~frames[Worker(r)].ai_invoked
            /\ HasError(r, "ai")
            /\ IsFallback(Resp(r).summary, Resp(r).meta.soft_errors["ai"])
            /\ Resp(r).summary["metadata"]["ai_used"] = FALSE
            /\ MarkdownRequested(r) => MarkdownNonEmpty(r)
            /\ Resp(r).ok = TRUE

\* a blocked AI request answered with markdown
C14_Witness ==
    \E r \in 1..NumReqs : AiBlocked(r) /\ MarkdownRequested(r) /\ MarkdownNonEmpty(r)

\* mode=ai, AI allowed, and generate_narrative_summary raised
AiThrew(r) ==
    /\ Generated(r)
    /\ AiRequested(r)
    /\ frames[Worker(r)].ai_allowed
    /\ frames[Worker(r)].ai_invoked
    /\ frames[Worker(r)].gen_threw

\* C15: when mode=ai, AI is allowed and the generator throws, the fault does not
\* propagate: the response is returned with ok=true, soft_errors.ai starts with
\* "AI generation threw", the summary is the canonical fallback and ai_used=false.
C15_GeneratorFaultIsSoft ==
    \A r \in 1..NumReqs :
        AiThrew(r) =>
            /\ Resp(r).ok = TRUE
            /\ HasError(r, "ai")
            /\ Head(Resp(r).meta.soft_errors["ai"]) = "AI generation threw"
            /\ IsFallback(Resp(r).summary, Resp(r).meta.soft_errors["ai"])
            /\ Resp(r).summary["metadata"]["ai_used"] = FALSE

\* a request whose generator raised, answered with ok=true
C15_Witness ==
    \E r \in 1..NumReqs : AiThrew(r) /\ SourcesHealthy(r) /\ Resp(r).ok = TRUE

\* generate_narrative_summary returned something that is not a dict
NonDictGenerated(r) ==
    /\ Generated(r)
    /\ frames[Worker(r)].gen_value.some
    /\ ~is_dict(frames[Worker(r)].gen_value.v)

WellFormed(summary) ==
    /\ is_dict(summary)
    /\ {"macro_summary", "micro_summary", "analyst_takeaway", "confidence_summary",
        "metadata"} \subseteq DOMAIN summary
    /\ is_dict(summary["micro_summary"])
    /\ {"key_edges", "risk_score", "risk_rationale"} \subseteq DOMAIN summary["micro_summary"]
    /\ is_dict(summary["metadata"])

\* C17: after the validation pass the summary of every response contains
\* macro_summary, micro_summary (a dict with key_edges, risk_score and
\* risk_rationale), analyst_takeaway, confidence_summary and metadata (a dict),
\* whatever the generation step did: returned a dict with any subset of the fields,
\* returned a non-dict, raised, or was skipped.
C17_SummaryWellFormed ==
    \A r \in 1..NumReqs : Done(r) => WellFormed(Resp(r).summary)

\* the generator returned a dict with none of the fields, and the answer has them all
C17_Witness ==
    \E r \in 1..NumReqs :
        /\ Done(r)
        /\ GeneratorReturned(r, cand_empty)
        /\ WellFormed(Resp(r).summary)

\* the AI path ran in request g and produced a dict: mode=ai, AI allowed, the
\* generator was invoked, returned without raising, and returned a dict
AiPathSucceeded(g) ==
    /\ AiRequested(g)
    /\ frames[Worker(g)].ai_allowed
    /\ frames[Worker(g)].ai_invoked
    /\ ~frames[Worker(g)].gen_threw
    /\ frames[Worker(g)].gen_value.some
    /\ is_dict(frames[Worker(g)].gen_value.v)

\* C18: summary.metadata.ai_used of a response is true only if, in the request
\* that generated its payload, mode was ai, AI was allowed, the generator was
\* invoked and returned without raising, and its result was a dict; in every
\* other case it is false.
C18_AiUsedOnlyWhenAiRan ==
    \A r \in 1..NumReqs :
        Done(r) =>
            /\ Resp(r).summary["metadata"]["ai_used"] \in BOOLEAN
            /\ \E g \in 1..NumReqs :
                  /\ Generated(g)
                  /\ Resp(g).ref = Resp(r).ref
                  /\ Resp(r).summary["metadata"]["ai_used"] = AiPathSucceeded(g)

\* one response with ai_used=true
C18_Witness ==
    \E r \in 1..NumReqs :
        Generated(r) /\ AiPathSucceeded(r) /\ Resp(r).summary["metadata"]["ai_used"] = TRUE

-----------------------------------------------------------------------------
(* Properties of soft-error sanitising (SpecSanitize) *)

\* C19: the keys of the soft_errors map put into a response are a subset of
\* {ai, trends, odds, games_today, player_props, markdown, template}: an error
\* recorded under any other key never appears in the output, while every entry
\* under an allowed key passes through with its message unchanged, also when the
\* map is sanitised a second time.
C19_OnlyAllowedKeys ==
    probe.la.some =>
        LET given == probe.a.v
            out == probe.la.v
        IN  /\ is_dict(out)
            /\ DOMAIN out \subseteq ALLOWED_SOFT_ERROR_KEYS
            /\ is_dict(given) =>
                  /\ DOMAIN out = DOMAIN given \cap ALLOWED_SOFT_ERROR_KEYS
                  /\ \A k \in DOMAIN out : given[k] # NoneValue => out[k] = given[k]
            /\ probe.lb.some => probe.lb.v = out

\* a map with an unregistered key and a message under ai: only the message is left
C19_Witness ==
    /\ probe.la.some
    /\ {"UNEXPECTED_KEY", "ai"} \subseteq DOMAIN probe.a.v
    /\ probe.a.v["ai"] # NoneValue
    /\ DOMAIN probe.la.v = {"ai"}
    /\ probe.la.v["ai"] = probe.a.v["ai"]

-----------------------------------------------------------------------------
(* Properties of the soft-error map of responses (SpecSoft) *)

\* the request whose handler generated the payload request r was answered with
GeneratorOf(r) == CHOOSE g \in 1..NumReqs : Generated(g) /\ Resp(g).ref = Resp(r).ref

\* nothing failed while request g generated its payload: no source fetch raised,
\* AI was not asked for while disallowed, the generator neither raised nor returned
\* a non-dict, and the markdown render did not raise
NoSoftFailure(g) ==
    /\ SourcesHealthy(g)
    /\ ~AiBlocked(g)
    /\ ~frames[Worker(g)].gen_threw
    /\ ~NonDictGenerated(g)
    /\ ~(MarkdownRequested(g) /\ render_markdown(Resp(g).summary, frames[g].compact).threw)

SoftErrorsIsMap(r) ==
    /\ "soft_errors" \in DOMAIN Resp(r).meta
    /\ is_dict(Resp(r).meta.soft_errors)

\* C20 (as stated): raw.meta.soft_errors is present and is a map in every response
\* of both endpoints, fresh or cached, and is the empty map when no soft failure
\* occurred.
C20_EmptyWhenNoFailure ==
    \A r \in 1..NumReqs :
        Done(r) =>
            /\ SoftErrorsIsMap(r)
            /\ NoSoftFailure(GeneratorOf(r)) => Resp(r).meta.soft_errors = NoErrors

\* C20 (amended): raw.meta.soft_errors is present and is a map in every response
\* of both endpoints, fresh or cached; it is the empty map exactly when no soft
\* failure occurred and the trends source was fetched, and holds the single entry
\* trends when no soft failure occurred and trends were not fetched.
C20_EmptyWhenNoFailureAndTrends ==
    \A r \in 1..NumReqs :
        Done(r) =>
            /\ SoftErrorsIsMap(r)
            /\ Resp(r).meta.soft_errors = NoErrors
                  <=> NoSoftFailure(GeneratorOf(r)) /\ TrendsFetched(GeneratorOf(r))
            /\ NoSoftFailure(GeneratorOf(r)) /\ ~TrendsFetched(GeneratorOf(r))
                  => DOMAIN Resp(r).meta.soft_errors = {"trends"}

\* a fresh and a cached response with the empty map
C20_Witness ==
    \E g, r \in 1..NumReqs :
        /\ Generated(g) /\ Served(r)
        /\ Resp(g).ref = Resp(r).ref
        /\ Resp(g).meta.soft_errors = NoErrors
        /\ Resp(r).meta.soft_errors = NoErrors

-----------------------------------------------------------------------------
(* Properties of the fan-out (SpecFault) *)

\* the fields of raw that hold the data of source s
RawFields(s) == IF s = "trends" THEN {"player_trends", "team_trends"} ELSE {s}

Succeeded(r, s) == frames[Worker(r)].src[s] = "data"
Threw(r, s) == frames[Worker(r)].src[s] = "err"

\* C21: a failure of any subset of the sources never prevents the remaining
\* sources from contributing: for each source whose fetch succeeded, its data is in
\* raw and it has no soft_errors entry, whichever other sources threw.
C21_SourcesIndependent ==
    \A r \in 1..NumReqs :
        Generated(r) =>
            \A s \in Sources :
                Succeeded(r, s) =>
                    /\ \A fld \in RawFields(s) : Resp(r).raw[fld] > 0
                    /\ s \notin DOMAIN Resp(r).meta.soft_errors

\* one source succeeded while every other source threw
C21_Witness ==
    \E r \in 1..NumReqs :
        /\ Generated(r)
        /\ Succeeded(r, "odds")
        /\ \A s \in Sources \ {"odds"} : Threw(r, s)
        /\ Resp(r).raw["odds"] > 0
        /\ DOMAIN Resp(r).meta.soft_errors \cap Sources = Sources \ {"odds"}

-----------------------------------------------------------------------------
(* Properties of the trends switch (SpecParam) *)

\* the effective trends flag of request r: the override, else the server default
TrendsOn(r) == effective_of(State, frames[r])

\* C22: when the effective trends flag is off (trends=0, or omitted with the server
\* default off), the trends fetcher is never invoked, raw.player_trends and
\* raw.team_trends are empty, soft_errors has a non-empty trends entry and
\* source_status.trends.status is "disabled"; when the flag is on and the fetch
\* succeeds, soft_errors has no trends entry.
C22_TrendsSwitch ==
    \A r \in 1..NumReqs :
        /\ ~TrendsOn(r) => frames[Worker(r)].src["trends"] \notin {"pending", "data", "err"}
        /\ Done(r) /\ ~TrendsOn(r) =>
              /\ Resp(r).raw["player_trends"] = 0
              /\ Resp(r).raw["team_trends"] = 0
              /\ HasError(r, "trends")
              /\ Resp(r).meta.source_status["trends"].status = "disabled"
        /\ Generated(r) /\ TrendsOn(r) /\ Succeeded(r, "trends") =>
              "trends" \notin DOMAIN Resp(r).meta.soft_errors

\* trends=0 against a server default of on: answered without trends
C22_Witness ==
    \E r \in 1..NumReqs :
        /\ Generated(r)
        /\ ENV_ENABLE_TRENDS
        /\ frames[r].trends = Some(0)
        /\ HasError(r, "trends")
        /\ Resp(r).meta.source_status["trends"].status = "disabled"

-----------------------------------------------------------------------------
(* Properties of the rendered markdown (SpecCross) *)

\* _render_markdown raised on the summary of /markdown request r
RendererThrew(r) == render_markdown(Resp(r).summary, frames[r].compact).threw

\* C23: every /markdown response contains a non-empty markdown string, in every
\* mode and under every failure combination; if the renderer throws, the fault is
\* caught, a soft error is recorded under markdown, and the markdown returned is
\* the rendering of the canonical fallback summary.
C23_MarkdownAlwaysRendered ==
    \A r \in 1..NumReqs :
        Done(r) /\ frames[r].ep = "markdown" =>
            /\ MarkdownNonEmpty(r)
            /\ RendererThrew(r) =>
                  /\ HasError(r, "markdown")
                  /\ Head(Resp(r).meta.soft_errors["markdown"]) = "Markdown generation failed"
                  /\ Resp(r).markdown.v =
                        render_markdown(fallback_summary(Resp(r).meta.soft_errors["markdown"]),
                                        frames[r].compact).text

-----------------------------------------------------------------------------
(* Properties of waiting on the in-flight locks (Spec) *)

\* the top-level request a call belongs to
Top(f) == IF Parent(f) = 0 THEN f ELSE Parent(f)

\* call f is queued on the lock of key k
QueuedOn(f, k) ==
    k \in DOMAIN INFLIGHT_LOCKS /\ \E i \in DOMAIN INFLIGHT_LOCKS[k].waiters :
        INFLIGHT_LOCKS[k].waiters[i] = f

\* call h is inside `async with lock:` for key k
Holds(h, k) == InSection(h) /\ KeyOf(h) = k

\* C24 (as stated): concurrent requests for different cache keys proceed fully
\* independently: a request for one key never waits on a lock held by an in-flight
\* request for a different cache key.
C24_DifferentKeysIndependent ==
    \A f, h \in Frames :
        \A k \in DOMAIN INFLIGHT_LOCKS :
            QueuedOn(f, k) /\ Holds(h, k) /\ INFLIGHT_LOCKS[k].locked =>
                KeyOf(Top(f)) = KeyOf(Top(h))

\* C24 (amended): a call waits only on the lock of the cache key it computed
\* itself, and a lock that is taken is held by an in-flight call with that same
\* key; for a /markdown request that also covers the key of its nested /today call
\* (cache_ttl=0, format=markdown), which does not depend on compact or cache_ttl,
\* so requests with different keys of their own wait for each other there.
C24_WaitsOnOwnKeyOnly ==
    \A f \in Frames :
        \A k \in DOMAIN INFLIGHT_LOCKS :
            /\ QueuedOn(f, k) => frames[f].pc = "wait" /\ KeyOf(f) = k
            /\ QueuedOn(f, k) /\ INFLIGHT_LOCKS[k].locked =>
                  \E h \in Frames \ {f} : Holds(h, k)
            /\ frames[f].pc = "wait" => QueuedOn(f, KeyOf(f))

\* two /markdown requests with different keys, the second waiting for the nested
\* call of the first
C24_Witness ==
    \E f, h \in Frames :
        /\ Parent(f) # 0 /\ Parent(h) # 0
        /\ QueuedOn(f, KeyOf(f))
        /\ Holds(h, KeyOf(f))
        /\ KeyOf(Parent(f)) # KeyOf(Parent(h))

-----------------------------------------------------------------------------
(* Properties of template mode (SpecFault) *)

\* the normalized mode of the generating request r is not "ai"
TemplateRequested(r) == Generated(r) /\ ~AiRequested(r)

\* the summary is what _build_grounded_template_summary makes of raw
IsGrounded(summary, raw) ==
    /\ \A k \in {"macro_summary", "micro_summary", "analyst_takeaway", "confidence_summary"} :
          summary[k] = build_grounded_template_summary(raw)[k]
    /\ summary["metadata"]["model"] = "TEMPLATE_GROUNDED_V1"

\* C25 (as stated): when the normalized mode is not "ai" (template, the default, or
\* any other value), the AI generator is never invoked whatever aiAllowed is, the
\* summary is produced by the grounded builder (metadata.model =
\* TEMPLATE_GROUNDED_V1) and ai_used=false.
C25_TemplateIsGrounded ==
    \A r \in 1..NumReqs :
        TemplateRequested(r) =>
            /\ ~frames[Worker(r)].ai_invoked
            /\ IsGrounded(Resp(r).summary, Resp(r).raw)
            /\ Resp(r).summary["metadata"]["ai_used"] = FALSE

\* C25 (amended): when the normalized mode is not "ai", the AI generator is never
\* invoked whatever aiAllowed is and ai_used=false; the summary is the grounded
\* builder's (metadata.model = TEMPLATE_GROUNDED_V1) unless the builder raises, and
\* then it is the canonical fallback (ROUTE_FALLBACK) with the fault recorded under
\* soft_errors.template.
C25_TemplateGroundedOrFallback ==
    \A r \in 1..NumReqs :
        TemplateRequested(r) =>
            /\ ~frames[Worker(r)].ai_invoked
            /\ Resp(r).summary["metadata"]["ai_used"] = FALSE
            /\ ~frames[Worker(r)].gen_threw =>
                  /\ IsGrounded(Resp(r).summary, Resp(r).raw)
                  /\ "template" \notin DOMAIN Resp(r).meta.soft_errors
            /\ frames[Worker(r)].gen_threw =>
                  /\ HasError(r, "template")
                  /\ Head(Resp(r).meta.soft_errors["template"]) = "Template generation threw"
                  /\ IsFallback(Resp(r).summary, Resp(r).meta.soft_errors["template"])

\* a mode that is neither template nor ai, with AI allowed, answered by the
\* grounded builder
C25_Witness ==
    \E r \in 1..NumReqs :
        /\ TemplateRequested(r)
        /\ frames[r].mode = s_x
        /\ frames[Worker(r)].ai_allowed
        /\ IsGrounded(Resp(r).summary, Resp(r).raw)

-----------------------------------------------------------------------------
(* Properties of cache hits under the lock (Spec) *)

\* call f starts no fetch and no generation in this step, and no nested call
NoWorkBy(f) ==
    /\ \A s \in Sources : frames'[f].src[s] = "none"
    /\ ~frames'[f].ai_invoked
    /\ Parent(f) = 0 => frames'[Nested(f)] = frames[Nested(f)]
    /\ Len(heap') = Len(heap)

\* C26: a request that finds a fresh entry, on the look-up before the lock or on
\* the re-check after acquiring the key's lock, returns that payload with
\* cache_used=true without invoking any source fetcher or the generation step.
C26_FreshEntryServed ==
    [][\A f \in Frames :
          LooksUp(f) /\ FreshIn(KeyOf(f)') =>
              /\ Done(f)'
              /\ Resp(f)'.meta.cache_used
              /\ Resp(f)'.ref = CACHE[KeyOf(f)'].payload.ref
              /\ Resp(f)'.summary = heap[Resp(f)'.ref].summary
              /\ NoWorkBy(f)]_vars

\* a request that waited for the key's lock and was served on the re-check
C26_Witness ==
    \E f \in Frames : frames[f].waited /\ Served(f)

-----------------------------------------------------------------------------
(* Properties of the barrier between fan-out and generation (SpecFault) *)

\* call f leaves the fan-out in this step: the gate runs and the response is built
Generates(f) == frames[f].pc = "gather" /\ frames'[f].pc # "gather"

\* C27: within a single request the generation step starts only after every
\* launched source fetch has settled (returned or thrown), and it receives the
\* data of all sources that succeeded.
C27_GenerationAfterFanOut ==
    [][\A f \in Frames :
          Generates(f) =>
              /\ \A s \in Sources : frames[f].src[s] \in {"data", "err", "none"}
              /\ frames'[f].src = frames[f].src
              /\ \A s \in Sources :
                    frames[f].src[s] = "data" =>
                        \A fld \in RawFields(s) : frames'[f].resp.v.raw[fld] > 0
              /\ frames'[f].resp.v.summary["metadata"]["inputs_digest"] =
                    sha1_digest(frames'[f].resp.v.raw)
              /\ ~(requested_mode_of(frames[f].mode) = s_ai) /\ ~frames'[f].gen_threw =>
                    IsGrounded(frames'[f].resp.v.summary, frames'[f].resp.v.raw)]_vars

\* a summary generated from the data of three sources after the fourth threw
C27_Witness ==
    \E r \in 1..NumReqs :
        /\ Generated(r)
        /\ Threw(r, "odds")
        /\ \A s \in Sources \ {"odds"} : Succeeded(r, s)
        /\ ~AiRequested(r)
        /\ IsGrounded(Resp(r).summary, Resp(r).raw)

-----------------------------------------------------------------------------
(* Properties of the AI flag (SpecFlip) *)

\* the ai flag a cache key encodes: the key ends in "ai=<0|1>|cmp=<0|1>"
KeyAiFlag(key) == key[Len(key) - 6] = "1"

\* the summary was made with AI allowed or not, as its metadata and its gate say
MadeWithAi(summary, soft_errors, flag) ==
    /\ summary["metadata"]["ai_allowed"] = flag
    /\ flag => ~("ai" \in DOMAIN soft_errors
                  /\ soft_errors["ai"] = <<"AI mode requested but not allowed (OPENAI_API_KEY missing/disabled).">>)

\* C28: the aiAllowed value used for a response is consistent throughout: for every
\* response and every cache entry, summary.metadata.ai_allowed and the gating
\* decision that produced the summary equal the ai flag encoded in the entry's or
\* the response's cache key, also when the aiAllowed predicate changes between
\* requests or while a request waits on a lock.
C28_AiFlagConsistent ==
    /\ \A r \in 1..NumReqs :
          Done(r) =>
              MadeWithAi(Resp(r).summary, Resp(r).meta.soft_errors,
                         KeyAiFlag(Resp(r).meta.cache_key))
    /\ \A k \in DOMAIN CACHE :
          MadeWithAi(heap[CACHE[k].payload.ref].summary,
                     heap[CACHE[k].payload.ref].meta.soft_errors, KeyAiFlag(k))

-----------------------------------------------------------------------------
(* Properties of the lock table (Spec) *)

\* call f looked its key up in this step for the first time and missed
MissesFirst(f) == frames[f].pc = "idle" /\ frames'[f].pc \in {"wait", "gather", "inner"}

\* call f has missed at its first look-up
HasMissed(f) ==
    \/ frames[f].pc \in {"wait", "gather", "inner"}
    \/ Done(f) /\ (frames[f].waited \/ Generated(f))

\* the lock of key k is the one it was before the step: it can only be taken,
\* released by the call that holds it, joined by a new waiter at the end of its
\* queue, or left by the waiter at the head of its queue
SameLock(k) ==
    LET old == INFLIGHT_LOCKS[k]
        new == INFLIGHT_LOCKS'[k]
    IN  /\ old.locked /\ ~new.locked =>
              \E h \in Frames : Holds(h, k) /\ frames'[h].pc = "done"
        /\ \/ new.waiters = old.waiters
           \/ \E f \in Frames : MissesFirst(f) /\ new.waiters = Append(old.waiters, f)
           \/ old.waiters # <<>> /\ ~old.locked /\ new.waiters = Tail(old.waiters)
        /\ old.locked /\ new.waiters # old.waiters => new.locked

\* C29: the lock table holds exactly one lock per cache key that has ever missed:
\* the lock is created on the first miss for the key, is never removed or replaced
\* afterwards, and all later requests for that key contend on that same lock.
C29_OneLockPerMissedKey ==
    /\ [](\A f \in Frames : HasMissed(f) => KeyOf(f) \in DOMAIN INFLIGHT_LOCKS)
    /\ [](\A k \in DOMAIN INFLIGHT_LOCKS : \E f \in Frames : HasMissed(f) /\ KeyOf(f) = k)
    /\ [](\A f, h \in Frames : InSection(f) /\ InSection(h) /\ KeyOf(f) = KeyOf(h) => f = h)
    /\ [][/\ DOMAIN INFLIGHT_LOCKS \subseteq DOMAIN INFLIGHT_LOCKS'
          /\ \A k \in DOMAIN INFLIGHT_LOCKS' :
                IF k \in DOMAIN INFLIGHT_LOCKS
                THEN SameLock(k)
                ELSE \E f \in Frames : MissesFirst(f) /\ cache_key_of(State, frames'[f]) = k]_vars

\* a call that was queued on a key's lock while another call held it has taken that
\* same lock after the holder finished
C29_Witness ==
    \E f, h \in Frames :
        /\ f # h /\ KeyOf(f) = KeyOf(h)
        /\ Done(h) /\ Generated(h)
        /\ frames[f].waited /\ InSection(f)
        /\ INFLIGHT_LOCKS[KeyOf(f)].locked

-----------------------------------------------------------------------------
(* Properties of the metadata stamp (SpecFault) *)

\* the generator of request r returned a dict whose metadata is a dict
CandidateHasMetadata(r) ==
    /\ frames[Worker(r)].gen_value.some
    /\ is_dict(frames[Worker(r)].gen_value.v)
    /\ "metadata" \in DOMAIN frames[Worker(r)].gen_value.v
    /\ is_dict(frames[Worker(r)].gen_value.v["metadata"])

\* C30: in every freshly generated response, summary.metadata.generated_at,
\* prompt_version, inputs_digest, ai_used and ai_allowed are the values stamped by
\* the gate after hardening; values for these fields supplied by the generation
\* collaborator never survive into the response.
C30_MetadataStamped ==
    \A r \in 1..NumReqs :
        Generated(r) =>
            LET md == Resp(r).summary["metadata"]
                w == Worker(r)
            IN  /\ md["generated_at"] \in frames[w].t0 .. now
                /\ md["prompt_version"] = PROMPT_VERSION
                /\ md["inputs_digest"] = sha1_digest(Resp(r).raw)
                /\ md["ai_used"] = AiPathSucceeded(r)
                /\ md["ai_allowed"] = frames[w].ai_allowed
                /\ CandidateHasMetadata(r) =>
                      \A k \in {"generated_at", "prompt_version", "ai_used"} :
                          k \in DOMAIN frames[w].gen_value.v["metadata"] =>
                              md[k] # frames[w].gen_value.v["metadata"][k]

\* the generator's object was used, with its own model name, and carried its own
\* values for the stamped fields
C30_Witness ==
    \E r \in 1..NumReqs :
        /\ Generated(r)
        /\ GeneratorReturned(r, cand_valid)
        /\ AiPathSucceeded(r)
        /\ Resp(r).summary["metadata"]["model"] = cand_valid.metadata.model
        /\ Resp(r).summary["metadata"]["ai_used"]

-----------------------------------------------------------------------------
(* Properties of a fault of the template builder (SpecFault) *)

\* request r generated its payload in template mode and the grounded builder raised
TemplateThrew(r) ==
    /\ Generated(r)
    /\ ~AiRequested(r)
    /\ frames[Worker(r)].gen_threw

\* C31: if the deterministic template builder throws in template mode, the fault is
\* recorded under soft_errors key "template" (and not under "ai"), the summary is
\* the canonical fallback, ai_used=false, and the response is still returned with
\* ok=true.
C31_TemplateFaultIsSoft ==
    \A r \in 1..NumReqs :
        TemplateThrew(r) =>
            /\ Resp(r).ok = TRUE
            /\ "template" \in DOMAIN Resp(r).meta.soft_errors
            /\ Resp(r).meta.soft_errors["template"] = <<"Template generation threw", ": ", "Exception">>
            /\ "ai" \notin DOMAIN Resp(r).meta.soft_errors
            /\ \A k \in {"macro_summary", "micro_summary", "analyst_takeaway", "confidence_summary"} :
                  Resp(r).summary[k] = fallback_summary(Resp(r).meta.soft_errors["template"])[k]
            /\ Resp(r).summary["metadata"]["model"] = "ROUTE_FALLBACK"
            /\ Resp(r).summary["metadata"]["ai_used"] = FALSE
            /\ ~frames[Worker(r)].ai_invoked

\* the builder raised for a /markdown request whose odds fetch had raised as well
C31_Witness ==
    \E r \in 1..NumReqs :
        /\ TemplateThrew(r)
        /\ frames[r].ep = "markdown"
        /\ frames[Worker(r)].src["odds"] = "err"
        /\ Resp(r).summary["metadata"]["model"] = "ROUTE_FALLBACK"

-----------------------------------------------------------------------------
(* Properties of the wrapped source fetches (SpecWrap) *)

\* the fetch of source s by call f has returned or raised
Settled(f, s) == frames[f].src[s] \in {"data", "empty", "err"}

\* what _safe_call / _safe_await returned to call f for source s
Wrapped(f, s) == safe_call(s, frames[f].src[s])

\* C32: for each wrapped source fetch, the result is exactly one of (data, no error)
\* or (no data, error string prefixed with the source's label): data and error are
\* never both populated and never both empty, and a thrown fault always yields the
\* error form.
C32_DataXorError ==
    \A f \in Frames :
        \A s \in Sources :
            Settled(f, s) =>
                /\ Wrapped(f, s).data.some # Wrapped(f, s).error.some
                /\ frames[f].src[s] = "err" =>
                      /\ ~Wrapped(f, s).data.some
                      /\ Wrapped(f, s).error.some
                      /\ Len(Wrapped(f, s).error.v) > 1
                      /\ Head(Wrapped(f, s).error.v) = s
                /\ frames[f].src[s] # "err" =>
                      /\ Wrapped(f, s).data.some
                      /\ ~Wrapped(f, s).error.some
                /\ Parent(f) = 0 /\ Generated(f) =>
                      IF Wrapped(f, s).error.some
                      THEN /\ s \in DOMAIN Resp(f).meta.soft_errors
                           /\ Resp(f).meta.soft_errors[s] = Wrapped(f, s).error.v
                           /\ \A fld \in RawFields(s) : Resp(f).raw[fld] = 0
                      ELSE /\ s \notin DOMAIN Resp(f).meta.soft_errors
                           /\ \A fld \in RawFields(s) : Resp(f).raw[fld] = Wrapped(f, s).data.v

\* one response for which a fetch raised, one returned nothing and one returned data
C32_Witness ==
    \E r \in 1..NumReqs :
        /\ Generated(r) /\ frames[r].ep = "today"
        /\ frames[r].src["odds"] = "err"
        /\ frames[r].src["games_today"] = "empty"
        /\ frames[r].src["player_props"] = "data"
        /\ Resp(r).meta.soft_errors["odds"] = <<"odds", ": ", "Exception">>

-----------------------------------------------------------------------------
(* Termination and release of the locks (SpecLive) *)

\* call f has been started and has not ended
Running(f) == frames[f].pc \in {"wait", "gather", "inner"}

\* call f has ended: it returned a response or an exception left the handler
Ended(f) == frames[f].pc \in {"done", "raised"}

\* C33: assuming every source fetch and generation call terminates, every request
\* to /today or /markdown eventually returns and every acquired per-key lock is
\* eventually released (also when an unhandled fault leaves the critical section);
\* no deadlock arises from /markdown holding its own key's lock while its nested
\* /today call acquires another lock.
C33_EveryRequestReturns ==
    /\ <>[](\A f \in Frames : ~Running(f))
    /\ [](\A f \in Frames : Ended(f) => [](Ended(f)))
    /\ [](\A k \in DOMAIN INFLIGHT_LOCKS :
             INFLIGHT_LOCKS[k].locked => \E h \in Frames : Holds(h, k))
    /\ []((\A f \in Frames : ~Running(f)) =>
             \A k \in DOMAIN INFLIGHT_LOCKS :
                 ~INFLIGHT_LOCKS[k].locked /\ INFLIGHT_LOCKS[k].waiters = <<>>)

\* a /markdown request holds its key's lock while its nested call is queued on the
\* lock another request's call holds
C33_Witness ==
    \E r \in 1..NumReqs, h \in Frames :
        /\ frames[r].ep = "markdown" /\ frames[r].pc = "inner"
        /\ INFLIGHT_LOCKS[KeyOf(r)].locked
        /\ frames[Nested(r)].pc = "wait"
        /\ h # Nested(r) /\ Holds(h, KeyOf(Nested(r)))

-----------------------------------------------------------------------------
(* Properties of what a cache hit writes (Spec) *)

\* call f is served from the cache in this step
HitBy(f) == LooksUp(f) /\ Served(f)'

\* C34: serving a cache hit (on the fast path or on the re-check under the lock)
\* leaves the cache unchanged: the stored entry's expires_at and its payload,
\* including the payload's raw.meta fields (cache_used, request_id, latency_ms,
\* cache_expires_in_s), are after the hit what they were before, and a response
\* returned earlier is not altered by a later hit.
C34_HitLeavesCacheUnchanged ==
    [][\A f \in Frames :
          HitBy(f) =>
              /\ CACHE' = CACHE
              /\ \A k \in DOMAIN CACHE :
                    heap'[CACHE[k].payload.ref] = heap[CACHE[k].payload.ref]
              /\ \A g \in Frames :
                    Done(g) => heap'[Resp(g).ref] = heap[Resp(g).ref]]_vars

-----------------------------------------------------------------------------
(* Properties of who stores into the cache (Spec) *)

\* the entry of key k is stored in this step: created or overwritten
StoredInStep(k) == k \notin DOMAIN CACHE \/ CACHE'[k] # CACHE[k]

-----------------------------------------------------------------------------
(* Properties of the per-source status (SpecWrap) *)

StatusOf(r, s) == Resp(r).meta.source_status[s].status

\* C36: in every freshly generated response, for each source s of games_today,
\* odds, trends and player_props, raw.meta.soft_errors contains key s if and only
\* if raw.meta.source_status[s].status is "error" or "disabled"; the status
\* "disabled" occurs only for trends and only when trends is not enabled.
C36_StatusMatchesSoftErrors ==
    \A r \in 1..NumReqs :
        Generated(r) =>
            \A s \in Sources :
                /\ StatusOf(r, s) \in {"ok", "no_data", "error", "disabled"}
                /\ s \in DOMAIN Resp(r).meta.soft_errors
                      <=> StatusOf(r, s) \in {"error", "disabled"}
                /\ StatusOf(r, s) = "disabled" =>
                      s = "trends" /\ ~Resp(r).meta.trends_enabled_in_narrative

\* trends disabled, one source in error, one without data and one with data, in
\* one response
C36_Witness ==
    \E r \in 1..NumReqs :
        /\ Generated(r)
        /\ StatusOf(r, "trends") = "disabled"
        /\ StatusOf(r, "odds") = "error"
        /\ StatusOf(r, "games_today") = "no_data"
        /\ StatusOf(r, "player_props") = "ok"
        /\ DOMAIN Resp(r).meta.soft_errors = {"trends", "odds"}

-----------------------------------------------------------------------------
(* Properties of the separation of the two endpoints' entries (SpecCross) *)

\* C37: the two endpoints never share cache entries: a /today request is never
\* served a payload stored by /markdown, a /markdown request is never served a
\* payload stored by /today, and the nested /today call made by /markdown (always
\* with cache_ttl=0) never creates a cache entry.
C37_EndpointsShareNoEntry ==
    /\ [](\A r, g \in 1..NumReqs :
             Served(r) /\ Generated(g) /\ Resp(g).ref = Resp(r).ref =>
                 frames[g].ep = frames[r].ep)
    /\ [][\A k \in DOMAIN CACHE' :
             StoredInStep(k) =>
                 \E f \in 1..NumReqs :
                     /\ Holds(f, k)
                     /\ CACHE'[k].payload.ref = frames'[f].resp.v.ref
                     /\ Parent(f) = 0]_vars

-----------------------------------------------------------------------------
(* Properties of sanitising as a function (SpecTyped) *)

\* C38: _sanitize_soft_errors is idempotent and total: for every input map,
\* sanitize(sanitize(m)) = sanitize(m), every surviving value is a string (None
\* becomes the empty string), and a non-map input yields the empty map.
C38_SanitizeIdempotentTotal ==
    /\ probe.la.some =>
          /\ is_dict(probe.la.v)
          /\ \A k \in DOMAIN probe.la.v : is_str(probe.la.v[k])
          /\ ~is_dict(probe.a.v) => probe.la.v = NoErrors
          /\ is_dict(probe.a.v) =>
                \A k \in DOMAIN probe.la.v :
                    /\ probe.a.v[k] = NoneValue => probe.la.v[k] = <<>>
                    /\ probe.a.v[k] = IntValue => probe.la.v[k] = <<"404">>
    /\ probe.lb.some => probe.lb.v = probe.la.v /\ probe.lb.v = sanitize_soft_errors(probe.la.v)

\* a map with None under one allowed key and an int under another, sanitised twice
C38_Witness ==
    /\ probe.lb.some
    /\ is_dict(probe.a.v)
    /\ {"ai", "template", "UNEXPECTED_KEY"} \subseteq DOMAIN probe.a.v
    /\ probe.a.v["ai"] = NoneValue
    /\ probe.a.v["template"] = IntValue
    /\ probe.lb.v = [k \in {"ai", "template"} |-> IF k = "ai" THEN <<>> ELSE <<"404">>]

=========================================================================
